---- MODULE Spec2Model ----
(***************************************************************************)
(* kJSON, Python client: the parser (kjson/parser.py), the serializer      *)
(* (kjson/serializer.py) and the extended types (kjson/types.py).          *)
(*                                                                         *)
(* A text is a sequence of characters, each character a string.  Positions *)
(* are 0-based as in the source: the character at position p of t is       *)
(* t[p + 1].  Characters outside ASCII are written by name ("<U+00B2>").   *)
(***************************************************************************)
EXTENDS Integers, Sequences, FiniteSets, TLC

VARIABLES
    text,       \* Parser.text: the document being parsed
    pos,        \* Parser.pos: the cursor
    length,     \* Parser.length
    result,     \* the value parse() holds / returns
    error,      \* the exception that left the call, NoExc when none
    pc,         \* the control point of the call in progress
    original,   \* the value handed to dumps
    opts,       \* the options of dumps: indent, sort_keys, ensure_ascii
    lhs,        \* first operand of an extended-type operation
    rhs,        \* second operand of an extended-type operation
    ret         \* what the extended-type operation returned

vars == <<text, pos, length, result, error, pc, original, opts, lhs, rhs, ret>>

(***************************************************************************)
(* Characters                                                              *)
(***************************************************************************)
NL == "\n"
CR == "\r"
TAB == "\t"
BSL == "\\"
DQ == "\""
SQ == "'"
BT == "<U+0060>"
BS == "<U+0008>"
FF == "<U+000C>"
NUL == "<U+0000>"
\* U+00B2 SUPERSCRIPT TWO: str.isdigit() is True, int() and float() reject it
Sup2 == "<U+00B2>"
\* U+00E9, U+4E16, U+1F600: a Latin-1 letter, a BMP letter, an astral symbol
EAcute == "<U+00E9>"
CJK == "<U+4E16>"
Emoji == "<U+1F600>"
\* current_char() / peek_char() return None past the end
NoChar == ""

AsciiDigits == {"0", "1", "2", "3", "4", "5", "6", "7", "8", "9"}
LowerHex == {"a", "b", "c", "d", "e", "f"}
UpperHex == {"A", "B", "C", "D", "E", "F"}
HexDigits == AsciiDigits \cup LowerHex \cup UpperHex
AsciiLower == {"a", "b", "c", "d", "e", "f", "g", "h", "i", "j", "k", "l", "m",
               "n", "o", "p", "q", "r", "s", "t", "u", "v", "w", "x", "y", "z"}
AsciiUpper == {"A", "B", "C", "D", "E", "F", "G", "H", "I", "J", "K", "L", "M",
               "N", "O", "P", "Q", "R", "S", "T", "U", "V", "W", "X", "Y", "Z"}

\* str.isdigit(), str.isalpha(), str.isalnum() on the characters of the model
isdigit(c) == c \in AsciiDigits \cup {Sup2}
isalpha(c) == c \in AsciiLower \cup AsciiUpper \cup {EAcute, CJK}
isalnum(c) == isalpha(c) \/ isdigit(c)

\* a local variable: F is evaluated with the value e bound once
Let(e, F(_)) == F(e)

Min(a, b) == IF a < b THEN a ELSE b
Max(a, b) == IF a < b THEN b ELSE a

\* text[a:b] of Python, 0-based, clamped to the text
Slice(t, a, b) ==
    Let(Min(Max(a, 0), Len(t)), LAMBDA lo :
    Let(Min(Max(b, lo), Len(t)), LAMBDA hi :
        SubSeq(t, lo + 1, hi)))

RECURSIVE Repeat(_, _)
Repeat(c, n) == IF n <= 0 THEN <<>> ELSE <<c>> \o Repeat(c, n - 1)

RECURSIVE Concat(_)
Concat(ss) == IF ss = <<>> THEN <<>> ELSE Head(ss) \o Concat(Tail(ss))

RECURSIVE Count(_, _)
Count(t, c) ==
    IF t = <<>> THEN 0 ELSE (IF Head(t) = c THEN 1 ELSE 0) + Count(Tail(t), c)

(***************************************************************************)
(* Exceptions.  An operation returns [ok, pos, val, exc]: on success the   *)
(* cursor after it and its value, on failure the exception raised.         *)
(***************************************************************************)
NoValue == [k |-> "none", v |-> 0]
NoExc == [kind |-> "none", msg |-> "", pos |-> -1, lineno |-> 0, colno |-> 0]

\* str.split('\n')
RECURSIVE SplitLines(_, _)
SplitLines(t, cur) ==
    IF t = <<>> THEN <<cur>>
    ELSE IF Head(t) = NL THEN <<cur>> \o SplitLines(Tail(t), <<>>)
    ELSE SplitLines(Tail(t), Append(cur, Head(t)))

JSONDecodeError(msg, doc, p) ==
    Let(SplitLines(Slice(doc, 0, p), <<>>), LAMBDA lines :
        [kind |-> "JSONDecodeError", msg |-> msg, pos |-> p,
         lineno |-> Len(lines),
         colno |-> IF lines # <<>> THEN Len(lines[Len(lines)]) + 1 ELSE 1])

\* an exception of the standard library, which carries no position
PyError(kind, msg) ==
    [kind |-> kind, msg |-> msg, pos |-> -1, lineno |-> 0, colno |-> 0]

Ok(p, v) == [ok |-> TRUE, pos |-> p, val |-> v, exc |-> NoExc]
Raise(p, e) == [ok |-> FALSE, pos |-> p, val |-> NoValue, exc |-> e]

(***************************************************************************)
(* The scanner                                                             *)
(***************************************************************************)
current_char(t, p) == IF p < Len(t) THEN t[p + 1] ELSE NoChar
peek_char(t, p, offset) == IF p + offset < Len(t) THEN t[p + offset + 1] ELSE NoChar
advance(t, p, count) == Min(p + count, Len(t))

\* a line comment that does not stop at the end of its line
SkipLineCommentToEnd(t, p) == Len(t)

RECURSIVE SkipLineComment(_, _)
SkipLineComment(t, p) ==
    IF p < Len(t) /\ t[p + 1] # NL
    THEN SkipLineComment(t, advance(t, p, 1))
    ELSE p

RECURSIVE SkipBlockComment(_, _)
SkipBlockComment(t, p) ==
    IF p < Len(t) - 1
    THEN IF t[p + 1] = "*" /\ t[p + 2] = "/"
         THEN advance(t, p, 2)
         ELSE SkipBlockComment(t, advance(t, p, 1))
    ELSE p

RECURSIVE skip_whitespace(_, _)
skip_whitespace(t, p) ==
    IF p < Len(t)
    THEN LET ch == t[p + 1]
         IN  IF ch \in {" ", TAB, NL, CR}
             THEN skip_whitespace(t, advance(t, p, 1))
             ELSE IF ch = "/" /\ peek_char(t, p, 1) = "/"
             THEN skip_whitespace(t, SkipLineComment(t, advance(t, p, 2)))
             ELSE IF ch = "/" /\ peek_char(t, p, 1) = "*"
             THEN skip_whitespace(t, SkipBlockComment(t, advance(t, p, 2)))
             ELSE p
    ELSE p

(***************************************************************************)
(* Python numbers.  An int is held as its canonical decimal string (the    *)
(* text str() gives), so that magnitudes are not bounded by 32-bit         *)
(* integers.  A float is held as the decimal it denotes, [neg, digits,     *)
(* exp] with digits free of leading and trailing zeros (empty for zero),   *)
(* or as inf; the texts of the model stay clear of the rounding of         *)
(* binary64 (at most a few significant digits, no subnormals).             *)
(***************************************************************************)
RECURSIVE StripLeadingZeros(_)
StripLeadingZeros(d) ==
    IF d # <<>> /\ Head(d) = "0" THEN StripLeadingZeros(Tail(d)) ELSE d

RECURSIVE StripTrailingZeros(_)
StripTrailingZeros(d) ==
    IF d # <<>> /\ d[Len(d)] = "0"
    THEN StripTrailingZeros(SubSeq(d, 1, Len(d) - 1))
    ELSE d

AllIn(d, S) == \A i \in 1..Len(d) : d[i] \in S

DigitVal(c) ==
    CASE c = "0" -> 0 [] c = "1" -> 1 [] c = "2" -> 2 [] c = "3" -> 3
      [] c = "4" -> 4 [] c = "5" -> 5 [] c = "6" -> 6 [] c = "7" -> 7
      [] c = "8" -> 8 [] c = "9" -> 9
      [] c \in {"a", "A"} -> 10 [] c \in {"b", "B"} -> 11
      [] c \in {"c", "C"} -> 12 [] c \in {"d", "D"} -> 13
      [] c \in {"e", "E"} -> 14 [] c \in {"f", "F"} -> 15

RECURSIVE StrToNat(_, _)
StrToNat(d, base) ==
    IF d = <<>> THEN 0
    ELSE StrToNat(SubSeq(d, 1, Len(d) - 1), base) * base + DigitVal(d[Len(d)])

\* str.strip() / lstrip(chars) / rstrip(chars)
RECURSIVE lstrip(_, _)
lstrip(s, chars) ==
    IF s # <<>> /\ Head(s) \in chars THEN lstrip(Tail(s), chars) ELSE s

RECURSIVE rstrip(_, _)
rstrip(s, chars) ==
    IF s # <<>> /\ s[Len(s)] \in chars
    THEN rstrip(SubSeq(s, 1, Len(s) - 1), chars)
    ELSE s

PyWhitespace == {" ", TAB, NL, CR, FF}

\* int(s): surrounding whitespace, an optional sign, then decimal digits.
\* (Python also takes '_' between digits; no text of the model holds one.)
PyInt(s) ==
    Let(rstrip(lstrip(s, PyWhitespace), PyWhitespace), LAMBDA t :
    Let(t # <<>> /\ Head(t) \in {"-", "+"}, LAMBDA signed :
    Let((IF signed THEN Tail(t) ELSE t), LAMBDA d :
    Let(StripLeadingZeros(d), LAMBDA mag :
        IF d = <<>> \/ ~AllIn(d, AsciiDigits)
        THEN Raise(0, PyError("ValueError", "invalid literal for int() with base 10"))
        ELSE Ok(0, IF mag = <<>> THEN <<"0">>
                   ELSE IF signed /\ Head(t) = "-" THEN <<"-">> \o mag
                   ELSE mag)))))

\* the decimal [neg, digits, exp] in lowest terms
NormDecimal(neg, digits, exp) ==
    Let(StripLeadingZeros(digits), LAMBDA a :
    Let(StripTrailingZeros(a), LAMBDA b :
        IF b = <<>> THEN [neg |-> neg, digits |-> <<>>, exp |-> 0]
        ELSE [neg |-> neg, digits |-> b, exp |-> exp + (Len(a) - Len(b))]))

FloatInf(neg) == [neg |-> neg, digits |-> <<"inf">>, exp |-> 0]

\* float('nan')
FloatNaN == [neg |-> FALSE, digits |-> <<"nan">>, exp |-> 0]

\* the first position >= p of s that holds no character of S
RECURSIVE SpanEnd(_, _, _)
SpanEnd(s, p, S) ==
    IF p < Len(s) /\ s[p + 1] \in S THEN SpanEnd(s, p + 1, S) ELSE p

\* float(s) on the decimal forms: sign, digits with an optional point, an
\* optional exponent.  Beyond the range of binary64 the result is inf or 0.
PyFloat(s) ==
    Let(s # <<>> /\ Head(s) \in {"-", "+"}, LAMBDA signed :
    Let(signed /\ Head(s) = "-", LAMBDA neg :
    Let((IF signed THEN 1 ELSE 0), LAMBDA p0 :
    Let(SpanEnd(s, p0, AsciiDigits), LAMBDA p1 :
    Let(current_char(s, p1) = ".", LAMBDA hasPoint :
    Let((IF hasPoint THEN SpanEnd(s, p1 + 1, AsciiDigits) ELSE p1), LAMBDA p2 :
    Let(Slice(s, p0, p1), LAMBDA ip :
    Let((IF hasPoint THEN Slice(s, p1 + 1, p2) ELSE <<>>), LAMBDA fp :
    Let(current_char(s, p2) \in {"e", "E"}, LAMBDA hasExp :
    Let((IF hasExp /\ current_char(s, p2 + 1) \in {"-", "+"}
              THEN p2 + 2 ELSE p2 + 1), LAMBDA p3 :
    Let((IF hasExp THEN SpanEnd(s, p3, AsciiDigits) ELSE p2), LAMBDA p4 :
    Let((IF hasExp THEN StripLeadingZeros(Slice(s, p3, p4)) ELSE <<>>), LAMBDA ed :
    Let((IF Len(ed) > 4 THEN 10000 ELSE StrToNat(ed, 10)), LAMBDA eabs :
    Let((IF hasExp /\ current_char(s, p2 + 1) = "-" THEN 0 - eabs ELSE eabs), LAMBDA e :
    Let(NormDecimal(neg, ip \o fp, e - Len(fp)), LAMBDA n :
    Let(Len(n.digits) + n.exp, LAMBDA decpt :
        IF (ip = <<>> /\ fp = <<>>) \/ (hasExp /\ p4 = p3) \/ p4 # Len(s)
        THEN Raise(0, PyError("ValueError", "could not convert string to float"))
        ELSE IF n.digits = <<>> THEN Ok(0, n)
        ELSE IF decpt > 309 THEN Ok(0, FloatInf(neg))
        ELSE IF decpt < -323 THEN Ok(0, [neg |-> neg, digits |-> <<>>, exp |-> 0])
        ELSE Ok(0, n)))))))))))))))))

(***************************************************************************)
(* kjson/types.py: BigInt and Decimal128                                   *)
(***************************************************************************)
\* BigInt.__init__ on a string
BigInt_init(value) ==
    Let(PyInt(rstrip(value, {"n"})), LAMBDA r :
        IF r.ok THEN Ok(0, [k |-> "BigInt", v |-> r.val]) ELSE r)

\* BigInt.__str__ and BigInt.to_kjson_string
BigInt_str(b) == b.v
BigInt_to_kjson_string(b) == b.v \o <<"n">>

\* str.split('.')
RECURSIVE SplitOn(_, _, _)
SplitOn(t, sep, cur) ==
    IF t = <<>> THEN <<cur>>
    ELSE IF Head(t) = sep THEN <<cur>> \o SplitOn(Tail(t), sep, <<>>)
    ELSE SplitOn(Tail(t), sep, Append(cur, Head(t)))

\* Decimal128.__init__ on a string
Decimal128_init(value0) ==
    Let(rstrip(value0, {"m"}), LAMBDA v1 :
    Let(v1 # <<>> /\ Head(v1) = "-", LAMBDA negative :
    Let(lstrip(v1, {"-"}), LAMBDA value :
    Let(SplitOn(value, ".", <<>>), LAMBDA parts :
        IF Len(parts) > 1
        THEN IF Len(parts) # 2
             THEN Raise(0, PyError("ValueError", "too many values to unpack"))
             ELSE Ok(0, [k |-> "Decimal128",
                         v |-> [negative |-> negative,
                                digits |-> parts[1] \o parts[2],
                                exponent |-> 0 - Len(parts[2])]])
        ELSE Ok(0, [k |-> "Decimal128",
                    v |-> [negative |-> negative, digits |-> value, exponent |-> 0]])))))

\* Decimal128.__str__
Decimal128_str(d) ==
    Let(d.v.digits, LAMBDA digits :
    Let(0 - d.v.exponent, LAMBDA exp :
    Let((IF d.v.exponent = 0 THEN digits
            ELSE IF d.v.exponent < 0
            THEN IF exp >= Len(digits)
                 THEN <<"0", ".">> \o Repeat("0", exp - Len(digits) + 1) \o digits
                 ELSE SubSeq(digits, 1, Len(digits) - exp) \o <<".">>
                      \o SubSeq(digits, Len(digits) - exp + 1, Len(digits))
            ELSE digits \o Repeat("0", d.v.exponent)), LAMBDA body :
        IF d.v.negative THEN <<"-">> \o body ELSE body)))

Decimal128_to_kjson_string(d) == Decimal128_str(d) \o <<"m">>

\* an equality that compares the numbers the two values denote
Decimal128_eq_numeric(a, b) ==
    IF b.k = "Decimal128"
    THEN NormDecimal(a.v.negative, a.v.digits, a.v.exponent)
         = NormDecimal(b.v.negative, b.v.digits, b.v.exponent)
    ELSE FALSE

\* Decimal128.__eq__ and Decimal128.__hash__: the hash of the tuple of fields
Decimal128_eq(a, b) ==
    IF b.k = "Decimal128"
    THEN a.v.negative = b.v.negative /\ a.v.digits = b.v.digits
         /\ a.v.exponent = b.v.exponent
    ELSE FALSE

Decimal128_hash(d) == <<d.v.negative, d.v.digits, d.v.exponent>>

(***************************************************************************)
(* kjson/parser.py: numbers and keywords                                   *)
(***************************************************************************)
RECURSIVE SkipDigits(_, _)
SkipDigits(t, p) ==
    IF current_char(t, p) # NoChar /\ isdigit(current_char(t, p))
    THEN SkipDigits(t, advance(t, p, 1))
    ELSE p

\* a constructor or conversion that raised: the exception leaves parse_number
Lift(p, r) == IF r.ok THEN Ok(p, r.val) ELSE Raise(p, r.exc)

parse_number(t, start) ==
    Let((IF current_char(t, start) = "-" THEN advance(t, start, 1) ELSE start), LAMBDA p1 :
    Let(current_char(t, p1), LAMBDA c1 :
    Let((IF c1 = "0" THEN advance(t, p1, 1) ELSE SkipDigits(t, p1)), LAMBDA p2 :
    Let(current_char(t, p2) = ".", LAMBDA has_fraction :
    Let((IF has_fraction THEN advance(t, p2, 1) ELSE p2), LAMBDA p3 :
    Let((IF has_fraction THEN SkipDigits(t, p3) ELSE p2), LAMBDA p4 :
    Let(current_char(t, p4) \in {"e", "E"}, LAMBDA has_exponent :
    Let((IF has_exponent THEN advance(t, p4, 1) ELSE p4), LAMBDA p5 :
    Let((IF has_exponent /\ current_char(t, p5) \in {"+", "-"}
              THEN advance(t, p5, 1) ELSE p5), LAMBDA p6 :
    Let((IF has_exponent THEN SkipDigits(t, p6) ELSE p4), LAMBDA p7 :
    Let(advance(t, p7, 1), LAMBDA p8 :
    Let(Slice(t, start, p7), LAMBDA num_str :
        IF c1 # "0" /\ ~(c1 # NoChar /\ isdigit(c1))
        THEN Raise(p1, JSONDecodeError("Invalid number", t, p1))
        ELSE IF has_fraction /\ ~(current_char(t, p3) # NoChar /\ isdigit(current_char(t, p3)))
        THEN Raise(p3, JSONDecodeError("Invalid number: expected digits after decimal", t, p3))
        ELSE IF has_exponent /\ ~(current_char(t, p6) # NoChar /\ isdigit(current_char(t, p6)))
        THEN Raise(p6, JSONDecodeError("Invalid number: expected digits in exponent", t, p6))
        ELSE IF current_char(t, p7) = "n"
        THEN IF has_fraction \/ has_exponent
             THEN Raise(p8, JSONDecodeError("BigInt cannot have fractional or exponent parts", t, start))
             ELSE Lift(p8, BigInt_init(Slice(t, start, p8 - 1)))
        ELSE IF current_char(t, p7) = "m"
        THEN Lift(p8, Decimal128_init(Slice(t, start, p8 - 1)))
        ELSE IF has_fraction \/ has_exponent
        THEN LET f == PyFloat(num_str)
             IN  IF f.ok THEN Ok(p7, [k |-> "float", v |-> f.val]) ELSE Raise(p7, f.exc)
        ELSE LET i == PyInt(num_str)
             IN  IF i.ok THEN Ok(p7, [k |-> "int", v |-> i.val]) ELSE Raise(p7, i.exc)))))))))))))

parse_null(t, p) ==
    IF Slice(t, p, p + 4) = <<"n", "u", "l", "l">>
    THEN Ok(advance(t, p, 4), [k |-> "null", v |-> 0])
    ELSE Raise(p, JSONDecodeError("Invalid null value", t, p))

parse_boolean(t, p) ==
    IF Slice(t, p, p + 4) = <<"t", "r", "u", "e">>
    THEN Ok(advance(t, p, 4), [k |-> "bool", v |-> TRUE])
    ELSE IF Slice(t, p, p + 5) = <<"f", "a", "l", "s", "e">>
    THEN Ok(advance(t, p, 5), [k |-> "bool", v |-> FALSE])
    ELSE Raise(p, JSONDecodeError("Invalid boolean value", t, p))

(***************************************************************************)
(* Code points: ord() and chr() on the characters of the model             *)
(***************************************************************************)
\* the printable ASCII characters, U+0020 .. U+007E
Ascii ==
    <<" ", "!", DQ, "#", "$", "%", "&", SQ, "(", ")", "*", "+", ",", "-", ".", "/",
      "0", "1", "2", "3", "4", "5", "6", "7", "8", "9", ":", ";", "<", "=", ">", "?",
      "@", "A", "B", "C", "D", "E", "F", "G", "H", "I", "J", "K", "L", "M", "N", "O",
      "P", "Q", "R", "S", "T", "U", "V", "W", "X", "Y", "Z", "[", BSL, "]", "^", "_",
      BT, "a", "b", "c", "d", "e", "f", "g", "h", "i", "j", "k", "l", "m", "n", "o",
      "p", "q", "r", "s", "t", "u", "v", "w", "x", "y", "z", "{", "|", "}", "~">>

Named ==
    <<<<NUL, 0>>, <<BS, 8>>, <<TAB, 9>>, <<NL, 10>>, <<FF, 12>>, <<CR, 13>>,
      <<Sup2, 178>>, <<EAcute, 233>>, <<CJK, 19990>>, <<Emoji, 128512>>>>

ord(c) ==
    IF \E i \in 1..Len(Named) : Named[i][1] = c
    THEN Named[CHOOSE i \in 1..Len(Named) : Named[i][1] = c][2]
    ELSE 31 + (CHOOSE i \in 1..Len(Ascii) : Ascii[i] = c)

chr(n) ==
    IF \E i \in 1..Len(Named) : Named[i][2] = n
    THEN Named[CHOOSE i \in 1..Len(Named) : Named[i][2] = n][1]
    ELSE IF n >= 32 /\ n <= 126 THEN Ascii[n - 31]
    ELSE "<cp " \o ToString(n) \o ">"

\* the digits of an int() literal without their underscores: one underscore
\* may stand between two digits, and after a base prefix
RECURSIVE Ungroup(_, _)
Ungroup(d, afterDigit) ==
    IF d = <<>> THEN [ok |-> afterDigit, digits |-> <<>>]
    ELSE IF Head(d) = "_"
    THEN IF afterDigit /\ Tail(d) # <<>> /\ Head(Tail(d)) # "_"
         THEN Ungroup(Tail(d), FALSE)
         ELSE [ok |-> FALSE, digits |-> <<>>]
    ELSE LET r == Ungroup(Tail(d), TRUE)
         IN  [ok |-> r.ok, digits |-> <<Head(d)>> \o r.digits]

\* int(s, 16): surrounding whitespace, an optional sign, an optional 0x,
\* then hexadecimal digits.  [ok, neg, digits]
PyIntHex(s) ==
    Let(rstrip(lstrip(s, PyWhitespace), PyWhitespace), LAMBDA t :
    Let(t # <<>> /\ Head(t) \in {"-", "+"}, LAMBDA signed :
    Let((IF signed THEN Tail(t) ELSE t), LAMBDA u :
    Let(Len(u) >= 2 /\ u[1] = "0" /\ u[2] \in {"x", "X"}, LAMBDA prefixed :
    Let(Ungroup(IF prefixed THEN Tail(Tail(u)) ELSE u, prefixed), LAMBDA d :
        [ok |-> d.ok /\ d.digits # <<>> /\ AllIn(d.digits, HexDigits),
         neg |-> signed /\ Head(t) = "-",
         digits |-> d.digits])))))

(***************************************************************************)
(* kjson/parser.py: strings                                                *)
(***************************************************************************)
Unescape(e) ==
    CASE e = DQ -> DQ [] e = SQ -> SQ [] e = BT -> BT [] e = BSL -> BSL
      [] e = "/" -> "/" [] e = "b" -> BS [] e = "f" -> FF [] e = "n" -> NL
      [] e = "r" -> CR [] e = "t" -> TAB

RECURSIVE StringLoop(_, _, _, _)
StringLoop(t, p, quote, acc) ==
    IF p < Len(t)
    THEN LET ch == t[p + 1]
             q == advance(t, p, 1)
             escape_ch == t[q + 1]
             r == advance(t, q, 1)
             n == PyIntHex(Slice(t, r, r + 4))
         IN  IF ch = quote THEN Ok(advance(t, p, 1), [k |-> "str", v |-> acc])
             ELSE IF ch = BSL
             THEN IF q >= Len(t)
                  THEN Raise(q, JSONDecodeError("Unterminated string escape", t, q))
                  ELSE IF escape_ch \in {DQ, SQ, BT, BSL, "/", "b", "f", "n", "r", "t"}
                  THEN StringLoop(t, advance(t, q, 1), quote, Append(acc, Unescape(escape_ch)))
                  ELSE IF escape_ch = "u"
                  THEN IF r + 4 > Len(t)
                       THEN Raise(r, JSONDecodeError("Invalid unicode escape", t, r))
                       ELSE IF n.ok /\ ~(n.neg /\ StrToNat(n.digits, 16) > 0)
                       THEN StringLoop(t, advance(t, advance(t, r, 3), 1), quote,
                                       Append(acc, chr(StrToNat(n.digits, 16))))
                       ELSE Raise(r, JSONDecodeError("Invalid unicode escape", t, r))
                  ELSE Raise(q, JSONDecodeError("Invalid escape sequence", t, q))
             ELSE StringLoop(t, advance(t, p, 1), quote, Append(acc, ch))
    ELSE Raise(p, JSONDecodeError("Unterminated string", t, p))

\* parse_string reporting every error of the loop at the opening quote
parse_string_error_at_quote(t, p) ==
    IF current_char(t, p) \notin {DQ, SQ, BT}
    THEN Raise(p, JSONDecodeError("Expected string quote", t, p))
    ELSE Let(StringLoop(t, advance(t, p, 1), t[p + 1], <<>>),
             LAMBDA r : IF r.ok THEN r ELSE Raise(p, JSONDecodeError(r.exc.msg, t, p)))

parse_string(t, p) ==
    IF current_char(t, p) \notin {DQ, SQ, BT}
    THEN Raise(p, JSONDecodeError("Expected string quote", t, p))
    ELSE StringLoop(t, advance(t, p, 1), t[p + 1], <<>>)

(***************************************************************************)
(* uuid.UUID(literal)                                                      *)
(***************************************************************************)
IsPrefixAt(t, p, sub) == Slice(t, p, p + Len(sub)) = sub

\* str.replace(sub, '')
RECURSIVE Remove(_, _)
Remove(t, sub) ==
    IF t = <<>> THEN <<>>
    ELSE IF IsPrefixAt(t, 0, sub) THEN Remove(SubSeq(t, Len(sub) + 1, Len(t)), sub)
    ELSE <<Head(t)>> \o Remove(Tail(t), sub)

Lower(c) ==
    CASE c = "A" -> "a" [] c = "B" -> "b" [] c = "C" -> "c" [] c = "D" -> "d"
      [] c = "E" -> "e" [] c = "F" -> "f" [] OTHER -> c

\* the UUID is held as its 32 lowercase hexadecimal digits
PyUUID(literal) ==
    Let(Remove(Remove(literal, <<"u", "r", "n", ":">>), <<"u", "u", "i", "d", ":">>), LAMBDA h1 :
    Let(Remove(rstrip(lstrip(h1, {"{", "}"}), {"{", "}"}), <<"-">>), LAMBDA h2 :
    Let(PyIntHex(h2), LAMBDA n :
        IF Len(h2) # 32 \/ ~n.ok
        THEN Raise(0, PyError("ValueError", "badly formed hexadecimal UUID string"))
        ELSE Ok(0, [k |-> "UUID",
                    v |-> Repeat("0", 32 - Len(n.digits))
                          \o [i \in 1..Len(n.digits) |-> Lower(n.digits[i])]]))))

\* str(uuid.UUID): 8-4-4-4-12
UUID_str(u) ==
    SubSeq(u.v, 1, 8) \o <<"-">> \o SubSeq(u.v, 9, 12) \o <<"-">>
    \o SubSeq(u.v, 13, 16) \o <<"-">> \o SubSeq(u.v, 17, 20) \o <<"-">>
    \o SubSeq(u.v, 21, 32)

(***************************************************************************)
(* datetime: fromisoformat, astimezone, strftime, isoformat                *)
(***************************************************************************)
RECURSIVE NatToStr(_)
NatToStr(n) ==
    IF n < 10 THEN <<Ascii[17 + n]>>
    ELSE NatToStr(n \div 10) \o <<Ascii[17 + (n % 10)]>>

\* a number in at least w digits
Pad(n, w) == Repeat("0", w - Len(NatToStr(n))) \o NatToStr(n)

IsLeap(y) == (y % 4 = 0 /\ y % 100 # 0) \/ y % 400 = 0

DaysInMonth(y, m) ==
    IF m = 2 THEN (IF IsLeap(y) THEN 29 ELSE 28)
    ELSE IF m \in {4, 6, 9, 11} THEN 30 ELSE 31

\* days since 1970-01-01 of a date of the proleptic Gregorian calendar
days_from_civil(y0, m, d) ==
    Let((IF m <= 2 THEN y0 - 1 ELSE y0), LAMBDA y :
    Let(y \div 400, LAMBDA era :
    Let(y - era * 400, LAMBDA yoe :
    Let((153 * (IF m > 2 THEN m - 3 ELSE m + 9) + 2) \div 5 + d - 1, LAMBDA doy :
    Let(yoe * 365 + yoe \div 4 - yoe \div 100 + doy, LAMBDA doe :
        era * 146097 + doe - 719468)))))

civil_from_days(z0) ==
    Let(z0 + 719468, LAMBDA z :
    Let(z \div 146097, LAMBDA era :
    Let(z - era * 146097, LAMBDA doe :
    Let((doe - doe \div 1460 + doe \div 36524 - doe \div 146096) \div 365, LAMBDA yoe :
    Let(doe - (365 * yoe + yoe \div 4 - yoe \div 100), LAMBDA doy :
    Let((5 * doy + 2) \div 153, LAMBDA mp :
    Let(doy - (153 * mp + 2) \div 5 + 1, LAMBDA d :
    Let((IF mp < 10 THEN mp + 3 ELSE mp - 9), LAMBDA m :
        <<yoe + era * 400 + (IF m <= 2 THEN 1 ELSE 0), m, d>>))))))))

\* the UTF-8 bytes of a string, as the C code sees them: an ASCII character
\* is its own byte, another character is a lead byte and continuation bytes
ByteLen(c) ==
    IF c \in {Sup2, EAcute} THEN 2 ELSE IF c = CJK THEN 3
    ELSE IF c = Emoji THEN 4 ELSE 1

RECURSIVE UTF8(_)
UTF8(s) ==
    IF s = <<>> THEN <<>>
    ELSE (IF ByteLen(Head(s)) = 1 THEN <<Head(s)>>
          ELSE <<"<lead>">> \o Repeat("<cont>", ByteLen(Head(s)) - 1))
         \o UTF8(Tail(s))

\* parse_digits of _datetimemodule.c: n decimal digits at p, or -1
parse_digits(s, p, n) ==
    IF \A i \in 0..(n - 1) : current_char(s, p + i) \in AsciiDigits
    THEN StrToNat(Slice(s, p, p + n), 10) ELSE -1

TimeResult(rv, vals, us) ==
    [rv |-> rv, hour |-> vals[1], minute |-> vals[2], second |-> vals[3], us |-> us]

\* the fractional component of parse_hh_mm_ss_ff: at most six digits are
\* read, the digits after them are skipped
ParseFraction(s, p, pend, vals) ==
    Let(Min(pend - p, 6), LAMBDA to_parse :
    Let(parse_digits(s, p, to_parse), LAMBDA f :
    Let(SpanEnd(s, p + to_parse, AsciiDigits), LAMBDA q :
    Let(<<100000, 10000, 1000, 100, 10, 1>>, LAMBDA scale :
        IF f < 0 THEN TimeResult(-3, <<0, 0, 0>>, 0)
        ELSE TimeResult(IF current_char(s, q) # NoChar THEN 1 ELSE 0,
                        vals, f * scale[to_parse])))))

\* parse_hh_mm_ss_ff: [HH[:?MM[:?SS]]] read from s between p and pend; rv is
\* 0 on success, 1 when characters are left, negative on failure
RECURSIVE ParseHMS(_, _, _, _, _, _)
ParseHMS(s, p, pend, i, has_separator, vals) ==
    Let(parse_digits(s, p, 2), LAMBDA n :
    Let(current_char(s, p + 2), LAMBDA c :
    Let(p + 3, LAMBDA q :
    Let((IF i = 0 THEN c = ":" ELSE has_separator), LAMBDA sep :
    Let([vals EXCEPT ![i + 1] = n], LAMBDA v :
        IF n < 0 THEN TimeResult(-3, <<0, 0, 0>>, 0)
        ELSE IF q >= pend THEN TimeResult(IF c # NoChar THEN 1 ELSE 0, v, 0)
        ELSE IF sep /\ c = ":"
        THEN IF i < 2 THEN ParseHMS(s, q, pend, i + 1, sep, v)
             ELSE ParseFraction(s, q, pend, v)
        ELSE IF c \in {".", ","} THEN ParseFraction(s, q, pend, v)
        ELSE IF ~sep
        THEN IF i < 2 THEN ParseHMS(s, q - 1, pend, i + 1, sep, v)
             ELSE ParseFraction(s, q - 1, pend, v)
        ELSE TimeResult(-4, <<0, 0, 0>>, 0))))))

parse_hh_mm_ss_ff(s, p, pend) == ParseHMS(s, p, pend, 0, TRUE, <<0, 0, 0>>)

\* the do-while of parse_isoformat_time that looks for Z, + or -
RECURSIVE TzInfoPos(_, _, _)
TzInfoPos(s, p, pend) ==
    IF current_char(s, p) \in {"Z", "+", "-"} THEN p
    ELSE IF p + 1 < pend THEN TzInfoPos(s, p + 1, pend)
    ELSE p + 1

NoTz == [some |-> FALSE, sec |-> 0, us |-> 0]

\* parse_isoformat_time: rv is 0 without an offset, 1 with one
parse_isoformat_time(s, p) ==
    Let(Len(s), LAMBDA pend :
    Let(TzInfoPos(s, p, pend), LAMBDA tzpos :
    Let(parse_hh_mm_ss_ff(s, p, tzpos), LAMBDA t :
    Let(parse_hh_mm_ss_ff(s, tzpos + 1, pend), LAMBDA z :
    Let((IF current_char(s, tzpos) = "-" THEN -1 ELSE 1), LAMBDA sign :
    Let([rv |-> -5, time |-> t, tz |-> NoTz], LAMBDA bad :
        IF t.rv < 0 THEN [rv |-> t.rv, time |-> t, tz |-> NoTz]
        ELSE IF tzpos = pend
        THEN IF t.rv = 1 THEN bad ELSE [rv |-> 0, time |-> t, tz |-> NoTz]
        ELSE IF current_char(s, tzpos) = "Z"
        THEN IF current_char(s, tzpos + 1) # NoChar THEN bad
             ELSE [rv |-> 1, time |-> t, tz |-> [some |-> TRUE, sec |-> 0, us |-> 0]]
        ELSE IF z.rv # 0 THEN bad
        ELSE [rv |-> 1, time |-> t,
              tz |-> [some |-> TRUE,
                      sec |-> sign * (z.hour * 3600 + z.minute * 60 + z.second),
                      us |-> sign * z.us]]))))))

\* parse_isoformat_date on YYYY-MM-DD and YYYYMMDD.  The week dates
\* (YYYY-Www-d) are not modelled: no text of the model has a W.
parse_isoformat_date(s) ==
    Let(parse_digits(s, 0, 4), LAMBDA y :
    Let(current_char(s, 4) = "-", LAMBDA uses_separator :
    Let((IF uses_separator THEN 5 ELSE 4), LAMBDA pm :
    Let(parse_digits(s, pm, 2), LAMBDA m :
    Let((IF uses_separator THEN pm + 3 ELSE pm + 2), LAMBDA pd :
    Let(parse_digits(s, pd, 2), LAMBDA d :
        IF y < 0 \/ current_char(s, pm) = "W" \/ m < 0 THEN [rv |-> -1, ymd |-> <<>>]
        ELSE IF uses_separator /\ current_char(s, pm + 2) # "-"
        THEN [rv |-> -2, ymd |-> <<>>]
        ELSE IF d < 0 THEN [rv |-> -1, ymd |-> <<>>]
        ELSE [rv |-> 0, ymd |-> <<y, m, d>>]))))))

\* datetime.fromisoformat of Python 3.11 (datetime_fromisoformat in
\* _datetimemodule.c), with the range checks of the datetime and timezone
\* constructors
fromisoformat(str) ==
    Let(UTF8(str), LAMBDA s :
    Let(Len(s), LAMBDA len :
    Let((IF len = 7 THEN 7
                              ELSE IF current_char(s, 4) = "-" THEN 10 ELSE 8), LAMBDA separator_location :
    Let(parse_isoformat_date(s), LAMBDA date :
    Let(len > separator_location, LAMBDA hasTime :
    Let(separator_location
             + (IF current_char(s, separator_location) = "<lead>"
                THEN 1 + SpanEnd(s, separator_location + 1, {"<cont>"})
                     - (separator_location + 1)
                ELSE 1), LAMBDA p :
    Let(parse_isoformat_time(s, p), LAMBDA tm :
    Let(tm.time, LAMBDA t :
    Let([ok |-> FALSE, fields |-> <<>>, tzinfo |-> NoTz], LAMBDA bad :
        IF len < 7 \/ date.rv < 0 THEN bad
        ELSE IF hasTime /\ tm.rv < 0 THEN bad
        ELSE IF ~(date.ymd[1] >= 1 /\ date.ymd[2] >= 1 /\ date.ymd[2] <= 12
                  /\ date.ymd[3] >= 1
                  /\ date.ymd[3] <= DaysInMonth(date.ymd[1], date.ymd[2]))
        THEN bad
        ELSE IF ~hasTime
        THEN [ok |-> TRUE, fields |-> date.ymd \o <<0, 0, 0, 0>>, tzinfo |-> NoTz]
        ELSE IF t.hour > 23 \/ t.minute > 59 \/ t.second > 59 THEN bad
        ELSE IF tm.tz.some /\ (tm.tz.sec >= 86400 \/ tm.tz.sec <= -86400)
        THEN bad
        ELSE [ok |-> TRUE,
              fields |-> date.ymd \o <<t.hour, t.minute, t.second, t.us>>,
              tzinfo |-> tm.tz])))))))))

\* the wall-clock fields moved by sec seconds and us microseconds
ShiftTime(f, sec, us) ==
    Let(f[7] + us, LAMBDA u :
    Let(f[4] * 3600 + f[5] * 60 + f[6] + sec + (u \div 1000000), LAMBDA t :
    Let(civil_from_days(days_from_civil(f[1], f[2], f[3]) + (t \div 86400)), LAMBDA date :
    Let(t % 86400, LAMBDA r :
        <<date[1], date[2], date[3], r \div 3600, (r % 3600) \div 60, r % 60,
          u % 1000000>>))))

\* the offset of the host's time zone, in seconds: astimezone() on a naive
\* datetime reads it from the environment
LocalUtcOffset == 0

\* datetime.astimezone(timezone.utc)
astimezone_utc(f, tzinfo) ==
    IF tzinfo.some THEN ShiftTime(f, 0 - tzinfo.sec, 0 - tzinfo.us)
    ELSE ShiftTime(f, 0 - LocalUtcOffset, 0)

\* int(offset.total_seconds() / 60): the division truncates towards zero
OffsetMinutes(tzinfo) ==
    IF tzinfo.sec < 0 \/ (tzinfo.sec = 0 /\ tzinfo.us < 0)
    THEN 0 - ((0 - tzinfo.sec) \div 60)
    ELSE tzinfo.sec \div 60

(***************************************************************************)
(* kjson/types.py: Date                                                    *)
(***************************************************************************)
NoOffset == [some |-> FALSE, min |-> 0]
SomeOffset(m) == [some |-> TRUE, min |-> m]

\* Date.__init__ on a string
Date_init(dt) ==
    Let(Len(dt), LAMBDA n :
    Let(fromisoformat(Slice(dt, 0, n - 1)), LAMBDA z :
    Let(fromisoformat(dt), LAMBDA f :
    Let(astimezone_utc(f.fields, f.tzinfo), LAMBDA utc :
        IF n > 0 /\ dt[n] = "Z"
        THEN IF z.ok
             THEN Ok(0, [k |-> "Date", v |-> [utc |-> z.fields, tz_offset |-> NoOffset]])
             ELSE Raise(0, PyError("ValueError", "Invalid isoformat string"))
        ELSE IF ~f.ok THEN Raise(0, PyError("ValueError", "Invalid isoformat string"))
        ELSE IF Count(dt, "+") > 0 \/ Count(dt, "-") > 2
        THEN IF utc[1] < 1 \/ utc[1] > 9999
             THEN Raise(0, PyError("OverflowError", "date value out of range"))
             ELSE Ok(0, [k |-> "Date",
                         v |-> [utc |-> utc,
                                tz_offset |-> IF f.tzinfo.some
                                                 /\ (f.tzinfo.sec # 0 \/ f.tzinfo.us # 0)
                                              THEN SomeOffset(OffsetMinutes(f.tzinfo))
                                              ELSE NoOffset]])
        ELSE Ok(0, [k |-> "Date", v |-> [utc |-> f.fields, tz_offset |-> NoOffset]])))))

\* Date.to_iso8601: strftime("%Y-%m-%dT%H:%M:%SZ") for UTC, isoformat()
\* of the local time otherwise
Date_to_iso8601(d) ==
    Let(d.v.utc, LAMBDA u :
    Let(ShiftTime(u, d.v.tz_offset.min * 60, 0), LAMBDA l :
    Let((IF d.v.tz_offset.min < 0 THEN 0 - d.v.tz_offset.min ELSE d.v.tz_offset.min), LAMBDA a :
        IF ~d.v.tz_offset.some
        THEN NatToStr(u[1]) \o <<"-">> \o Pad(u[2], 2) \o <<"-">> \o Pad(u[3], 2)
             \o <<"T">> \o Pad(u[4], 2) \o <<":">> \o Pad(u[5], 2) \o <<":">>
             \o Pad(u[6], 2) \o <<"Z">>
        ELSE Pad(l[1], 4) \o <<"-">> \o Pad(l[2], 2) \o <<"-">> \o Pad(l[3], 2)
             \o <<"T">> \o Pad(l[4], 2) \o <<":">> \o Pad(l[5], 2) \o <<":">>
             \o Pad(l[6], 2)
             \o (IF l[7] # 0 THEN <<".">> \o Pad(l[7], 6) ELSE <<>>)
             \o <<(IF d.v.tz_offset.min < 0 THEN "-" ELSE "+")>>
             \o Pad(a \div 60, 2) \o <<":">> \o Pad(a % 60, 2))))

\* Date.__eq__
Date_eq(a, b) ==
    IF b.k = "Date" THEN a.v.utc = b.v.utc /\ a.v.tz_offset = b.v.tz_offset
    ELSE FALSE

(***************************************************************************)
(* kjson/parser.py: unquoted literals, arrays, objects, values             *)
(***************************************************************************)
LiteralDelimiters == {" ", TAB, NL, CR, ",", "]", "}"}

RECURSIVE LiteralEnd(_, _)
LiteralEnd(t, p) ==
    IF p < Len(t) /\ t[p + 1] \notin LiteralDelimiters
    THEN LiteralEnd(t, advance(t, p, 1))
    ELSE p

parse_unquoted_literal(t, start) ==
    Let(LiteralEnd(t, start), LAMBDA end :
    Let(Slice(t, start, end), LAMBDA literal :
    Let(PyUUID(literal), LAMBDA u :
    Let(Date_init(literal), LAMBDA d :
        IF u.ok THEN Ok(end, u.val)
        ELSE IF d.ok THEN Ok(end, d.val)
        ELSE Raise(end, JSONDecodeError("Invalid unquoted literal", t, start))))))

RECURSIVE KeyEnd(_, _)
KeyEnd(t, p) ==
    IF current_char(t, p) # NoChar
       /\ (isalnum(current_char(t, p)) \/ current_char(t, p) \in {"_", "$"}
           \/ current_char(t, p) = "-")
    THEN KeyEnd(t, advance(t, p, 1))
    ELSE p

\* The probe parse_unquoted_literal() at lines 406-415 puts the cursor back
\* whether it succeeds or raises, and its value is dropped.
parse_unquoted_key(t, start) ==
    Let(current_char(t, start), LAMBDA ch :
    Let(KeyEnd(t, advance(t, start, 1)), LAMBDA end :
        IF ch = NoChar \/ ~(isalpha(ch) \/ ch \in {"_", "$"})
        THEN Raise(start, JSONDecodeError("Invalid unquoted key", t, start))
        ELSE Ok(end, [k |-> "str", v |-> Slice(t, start, end)])))

\* a dict in which a key that is set again moves to the end
DictSetAtEnd(items, key, value) ==
    Append(SelectSeq(items, LAMBDA item : item[1] # key), <<key, value>>)

\* result[key] = value on a dict kept as the sequence of its items
DictSet(items, key, value) ==
    IF \E i \in 1..Len(items) : items[i][1] = key
    THEN [i \in 1..Len(items) |->
            IF items[i][1] = key THEN <<key, value>> ELSE items[i]]
    ELSE Append(items, <<key, value>>)

\* the lookahead of parse_value, lines 131-153
is_uuid(t, p) ==
    /\ isdigit(t[p + 1]) \/ t[p + 1] \in LowerHex
    /\ SpanEnd(t, p, HexDigits) - p = 8
    /\ current_char(t, p + 8) = "-"

is_date(t, p) ==
    ~is_uuid(t, p) /\ isdigit(t[p + 1]) /\ p + 4 < Len(t) /\ t[p + 5] = "-"

RECURSIVE parse_value(_, _), ArrayLoop(_, _, _), ObjectLoop(_, _, _)

parse_array(t, p) ==
    Let(skip_whitespace(t, advance(t, p, 1)), LAMBDA q :
        IF current_char(t, p) # "["
        THEN Raise(p, JSONDecodeError("Expected '['", t, p))
        ELSE IF current_char(t, q) = "]"
        THEN Ok(advance(t, q, 1), [k |-> "list", v |-> <<>>])
        ELSE ArrayLoop(t, q, <<>>))

\* an array loop that takes a value after every comma
ArrayLoopNoTrailingComma(t, p, acc) ==
    Let(parse_value(t, p), LAMBDA r :
    Let(skip_whitespace(t, r.pos), LAMBDA q :
    Let(current_char(t, q), LAMBDA ch :
    Let(Append(acc, r.val), LAMBDA items :
        IF ~r.ok THEN r
        ELSE IF ch = "," THEN ArrayLoop(t, skip_whitespace(t, advance(t, q, 1)), items)
        ELSE IF ch = "]" THEN Ok(advance(t, q, 1), [k |-> "list", v |-> items])
        ELSE Raise(q, JSONDecodeError("Expected ',' or ']' in array", t, q))))))

ArrayLoop(t, p, acc) ==
    Let(parse_value(t, p), LAMBDA r :
    Let(skip_whitespace(t, r.pos), LAMBDA q :
    Let(current_char(t, q), LAMBDA ch :
    Let(skip_whitespace(t, advance(t, q, 1)), LAMBDA q2 :
    Let(Append(acc, r.val), LAMBDA items :
        IF ~r.ok THEN r
        ELSE IF ch = ","
        THEN IF current_char(t, q2) = "]"
             THEN Ok(advance(t, q2, 1), [k |-> "list", v |-> items])
             ELSE ArrayLoop(t, q2, items)
        ELSE IF ch = "]" THEN Ok(advance(t, q, 1), [k |-> "list", v |-> items])
        ELSE Raise(q, JSONDecodeError("Expected ',' or ']' in array", t, q)))))))

parse_object(t, p) ==
    Let(skip_whitespace(t, advance(t, p, 1)), LAMBDA q :
        IF current_char(t, p) # "{"
        THEN Raise(p, JSONDecodeError("Expected '{'", t, p))
        ELSE IF current_char(t, q) = "}"
        THEN Ok(advance(t, q, 1), [k |-> "dict", v |-> <<>>])
        ELSE ObjectLoop(t, q, <<>>))

ObjectLoop(t, p, acc) ==
    Let(skip_whitespace(t, p), LAMBDA p1 :
    Let((IF current_char(t, p1) \in {DQ, SQ, BT}
               THEN parse_string(t, p1) ELSE parse_unquoted_key(t, p1)), LAMBDA key :
    Let(skip_whitespace(t, key.pos), LAMBDA p2 :
    Let(parse_value(t, advance(t, p2, 1)), LAMBDA r :
    Let(skip_whitespace(t, r.pos), LAMBDA q :
    Let(current_char(t, q), LAMBDA ch :
    Let(skip_whitespace(t, advance(t, q, 1)), LAMBDA q2 :
    Let(DictSet(acc, key.val.v, r.val), LAMBDA items :
        IF ~key.ok THEN key
        ELSE IF current_char(t, p2) # ":"
        THEN Raise(p2, JSONDecodeError("Expected ':' after object key", t, p2))
        ELSE IF ~r.ok THEN r
        ELSE IF ch = ","
        THEN IF current_char(t, q2) = "}"
             THEN Ok(advance(t, q2, 1), [k |-> "dict", v |-> items])
             ELSE ObjectLoop(t, q2, items)
        ELSE IF ch = "}" THEN Ok(advance(t, q, 1), [k |-> "dict", v |-> items])
        ELSE Raise(q, JSONDecodeError("Expected ',' or '}' in object", t, q))))))))))

\* try: parse_unquoted_literal() except: restore the cursor and parse as other
LiteralOr(literal, other) == IF literal.ok THEN literal ELSE other

parse_value(t, p0) ==
    Let(skip_whitespace(t, p0), LAMBDA p :
    Let(t[p + 1], LAMBDA ch :
    Let(parse_unquoted_literal(t, p), LAMBDA literal :
    Let(parse_number(t, p), LAMBDA number :
        IF p >= Len(t)
        THEN Raise(p, JSONDecodeError("Unexpected end of JSON input", t, p))
        ELSE IF ch = "n" THEN parse_null(t, p)
        ELSE IF ch = "t" \/ ch = "f" THEN LiteralOr(literal, parse_boolean(t, p))
        ELSE IF ch \in {DQ, SQ, BT} THEN parse_string(t, p)
        ELSE IF ch = "[" THEN parse_array(t, p)
        ELSE IF ch = "{" THEN parse_object(t, p)
        ELSE IF ch = "-" \/ isdigit(ch)
        THEN IF is_uuid(t, p) \/ is_date(t, p)
             THEN LiteralOr(literal, number)
             ELSE number
        ELSE literal))))

(***************************************************************************)
(* kjson/serializer.py                                                     *)
(***************************************************************************)
RECURSIVE ReplaceChar(_, _, _)
\* str.replace(c, by) for a one-character c
ReplaceChar(t, c, by) ==
    IF t = <<>> THEN <<>>
    ELSE (IF Head(t) = c THEN by ELSE <<Head(t)>>) \o ReplaceChar(Tail(t), c, by)

RECURSIVE ToHex(_, _)
\* n in at least w lowercase hexadecimal digits
ToHex(n, w) ==
    IF n = 0 /\ w <= 0 THEN <<>>
    ELSE ToHex(n \div 16, w - 1)
         \o <<(<<"0", "1", "2", "3", "4", "5", "6", "7", "8", "9",
                 "a", "b", "c", "d", "e", "f">>)[(n % 16) + 1]>>

\* str.encode('unicode_escape') on one character
UnicodeEscapeChar(c) ==
    IF c = BSL THEN <<BSL, BSL>>
    ELSE IF c = TAB THEN <<BSL, "t">>
    ELSE IF c = NL THEN <<BSL, "n">>
    ELSE IF c = CR THEN <<BSL, "r">>
    ELSE IF ord(c) >= 32 /\ ord(c) < 127 THEN <<c>>
    ELSE IF ord(c) < 256 THEN <<BSL, "x">> \o ToHex(ord(c), 2)
    ELSE IF ord(c) < 65536 THEN <<BSL, "u">> \o ToHex(ord(c), 4)
    ELSE <<BSL, "U">> \o ToHex(ord(c), 8)

RECURSIVE UnicodeEscape(_)
UnicodeEscape(t) ==
    IF t = <<>> THEN <<>> ELSE UnicodeEscapeChar(Head(t)) \o UnicodeEscape(Tail(t))

RECURSIVE HalveBackslashes(_)
\* encoded.replace('\\\\', '\\'): pairs of backslashes, left to right
HalveBackslashes(t) ==
    IF t = <<>> THEN <<>>
    ELSE IF Len(t) >= 2 /\ t[1] = BSL /\ t[2] = BSL
    THEN <<BSL>> \o HalveBackslashes(Tail(Tail(t)))
    ELSE <<Head(t)>> \o HalveBackslashes(Tail(t))

escape_string(s, quote_char, ensure_ascii) ==
    Let(ReplaceChar(s, BSL, <<BSL, BSL>>), LAMBDA e1 :
    Let(ReplaceChar(e1, BS, <<BSL, "b">>), LAMBDA e2 :
    Let(ReplaceChar(e2, FF, <<BSL, "f">>), LAMBDA e3 :
    Let(ReplaceChar(e3, NL, <<BSL, "n">>), LAMBDA e4 :
    Let(ReplaceChar(e4, CR, <<BSL, "r">>), LAMBDA e5 :
    Let(ReplaceChar(e5, TAB, <<BSL, "t">>), LAMBDA e6 :
    Let(ReplaceChar(e6, quote_char, <<BSL, quote_char>>), LAMBDA escaped :
        IF ensure_ascii THEN HalveBackslashes(UnicodeEscape(escaped)) ELSE escaped)))))))

\* serialize_string taking backticks when their cost equals the minimum
serialize_string_backtick_on_tie(s, ensure_ascii) ==
    Let(Count(s, BSL), LAMBDA backslashes :
    Let(Count(s, SQ) + backslashes, LAMBDA single_cost :
    Let(Count(s, DQ) + backslashes, LAMBDA double_cost :
    Let(Count(s, BT) + backslashes, LAMBDA backtick_cost :
    Let(Min(single_cost, double_cost), LAMBDA min_cost :
    Let((IF backtick_cost <= min_cost THEN BT
                      ELSE IF double_cost < single_cost THEN DQ ELSE SQ), LAMBDA quote_char :
        <<quote_char>> \o escape_string(s, quote_char, ensure_ascii) \o <<quote_char>>))))))

serialize_string(s, ensure_ascii) ==
    Let(Count(s, BSL), LAMBDA backslashes :
    Let(Count(s, SQ) + backslashes, LAMBDA single_cost :
    Let(Count(s, DQ) + backslashes, LAMBDA double_cost :
    Let(Count(s, BT) + backslashes, LAMBDA backtick_cost :
    Let(Min(single_cost, double_cost), LAMBDA min_cost :
    Let((IF backtick_cost < min_cost THEN BT
                      ELSE IF double_cost < single_cost THEN DQ ELSE SQ), LAMBDA quote_char :
        <<quote_char>> \o escape_string(s, quote_char, ensure_ascii) \o <<quote_char>>))))))

\* json.dumps(float): float.__repr__ on the shortest digits that round-trip
float_repr(f) ==
    Let(Len(f.digits), LAMBDA n :
    Let(n + f.exp, LAMBDA decpt :
    Let((IF decpt - 1 < 0 THEN 1 - decpt ELSE decpt - 1), LAMBDA e :
    Let((IF f.digits = <<>> THEN <<"0", ".", "0">>
            ELSE IF decpt > -4 /\ decpt <= 16
            THEN IF decpt <= 0
                 THEN <<"0", ".">> \o Repeat("0", 0 - decpt) \o f.digits
                 ELSE IF decpt >= n
                 THEN f.digits \o Repeat("0", decpt - n) \o <<".", "0">>
                 ELSE Slice(f.digits, 0, decpt) \o <<".">> \o Slice(f.digits, decpt, n)
            ELSE <<f.digits[1]>>
                 \o (IF n > 1 THEN <<".">> \o Tail(f.digits) ELSE <<>>)
                 \o <<"e", (IF decpt - 1 < 0 THEN "-" ELSE "+")>> \o Pad(e, 2)), LAMBDA body :
        (IF f.neg THEN <<"-">> ELSE <<>>) \o body))))

RECURSIVE Join(_, _)
\* sep.join(items)
Join(items, sep) ==
    IF items = <<>> THEN <<>>
    ELSE IF Len(items) = 1 THEN items[1]
    ELSE items[1] \o sep \o Join(Tail(items), sep)

RECURSIVE StrLess(_, _)
\* a < b on strings: by code points
StrLess(a, b) ==
    IF b = <<>> THEN FALSE
    ELSE IF a = <<>> THEN TRUE
    ELSE IF Head(a) = Head(b) THEN StrLess(Tail(a), Tail(b))
    ELSE ord(Head(a)) < ord(Head(b))

RECURSIVE Sorted(_)
\* sorted(obj.keys()) on the items of a dict
Sorted(items) ==
    IF items = <<>> THEN <<>>
    ELSE LET i == CHOOSE i \in 1..Len(items) :
                    \A j \in 1..Len(items) : j = i \/ StrLess(items[i][1], items[j][1])
         IN  <<items[i]>>
             \o Sorted([j \in 1..(Len(items) - 1) |->
                          IF j < i THEN items[j] ELSE items[j + 1]])

\* str.isidentifier()
isidentifier(key) ==
    /\ key # <<>>
    /\ isalpha(key[1]) \/ key[1] = "_"
    /\ \A i \in 2..Len(key) :
           isalpha(key[i]) \/ key[i] \in AsciiDigits \/ key[i] = "_"

\* the __dict__ of an Instant or a Duration
InstanceDict(x) == <<<<<<"n", "a", "n", "o", "s", "e", "c", "o", "n", "d", "s">>, x.v>>>>

\* hasattr(obj, '__dict__'): of the values that are none of the types
\* serialize_value tests for, an Instant and a Duration have a __dict__; a
\* value of kind "other" (a set, bytes, a complex number) has none, and its
\* v is the text of str(obj)
hasattr_dict(obj) == obj.k \in {"Instant", "Duration"}

\* json.dumps on one character of a str
JsonEscapeChar(c, ensure_ascii) ==
    IF c = DQ THEN <<BSL, DQ>>
    ELSE IF c = BSL THEN <<BSL, BSL>>
    ELSE IF c = NL THEN <<BSL, "n">>
    ELSE IF c = CR THEN <<BSL, "r">>
    ELSE IF c = TAB THEN <<BSL, "t">>
    ELSE IF c = BS THEN <<BSL, "b">>
    ELSE IF c = FF THEN <<BSL, "f">>
    ELSE IF ord(c) < 32 \/ (ensure_ascii /\ ord(c) > 126 /\ ord(c) < 65536)
    THEN <<BSL, "u">> \o ToHex(ord(c), 4)
    ELSE IF ensure_ascii /\ ord(c) >= 65536
    THEN <<BSL, "u">> \o ToHex(55296 + ((ord(c) - 65536) \div 1024), 4)
         \o <<BSL, "u">> \o ToHex(56320 + ((ord(c) - 65536) % 1024), 4)
    ELSE <<c>>

\* json.dumps(s, ensure_ascii=ensure_ascii) on a str
json_dumps_str(s, ensure_ascii) ==
    <<DQ>> \o Concat([i \in 1..Len(s) |-> JsonEscapeChar(s[i], ensure_ascii)]) \o <<DQ>>

\* json.dumps(obj) on every float: NaN and the infinities by their names
serialize_float_by_name(f) ==
    IF f = FloatNaN THEN <<"N", "a", "N">>
    ELSE IF f = FloatInf(FALSE) THEN <<"I", "n", "f", "i", "n", "i", "t", "y">>
    ELSE IF f = FloatInf(TRUE) THEN <<"-", "I", "n", "f", "i", "n", "i", "t", "y">>
    ELSE float_repr(f)

\* the float branch of serialize_value: NaN (obj != obj), float('inf') and
\* float('-inf') are written null, every other float by json.dumps
serialize_float(f) ==
    IF f = FloatNaN THEN <<"n", "u", "l", "l">>
    ELSE IF f = FloatInf(FALSE) THEN <<"n", "u", "l", "l">>
    ELSE IF f = FloatInf(TRUE) THEN <<"n", "u", "l", "l">>
    ELSE float_repr(f)

RECURSIVE serialize_value(_, _, _, _, _)
RECURSIVE SerializeItems(_, _, _, _, _)
SerializeItems(arr, indent, inner_indent, sort_keys, ensure_ascii) ==
    [i \in 1..Len(arr) |->
        Repeat(" ", inner_indent)
        \o serialize_value(arr[i], indent, inner_indent, sort_keys, ensure_ascii)]

\* serialize_array writing its items without sort_keys
serialize_array_items_unsorted(arr, indent, current_indent, sort_keys, ensure_ascii) ==
    IF arr = <<>> THEN <<"[", "]">>
    ELSE IF indent > 0
    THEN <<"[", NL>>
         \o Join(SerializeItems(arr, indent, current_indent + indent, FALSE,
                                ensure_ascii), <<",", NL>>)
         \o <<NL>> \o Repeat(" ", current_indent) \o <<"]">>
    ELSE <<"[">> \o Join(SerializeItems(arr, 0, 0, FALSE, ensure_ascii), <<",", " ">>)
         \o <<"]">>

\* serialize_array closing a pretty-printed array at the indent of its
\* elements
serialize_array_closing_indented(arr, indent, current_indent, sort_keys, ensure_ascii) ==
    IF arr = <<>> THEN <<"[", "]">>
    ELSE IF indent > 0
    THEN <<"[", NL>>
         \o Join(SerializeItems(arr, indent, current_indent + indent, sort_keys,
                                ensure_ascii), <<",", NL>>)
         \o <<NL>> \o Repeat(" ", current_indent + indent) \o <<"]">>
    ELSE <<"[">> \o Join(SerializeItems(arr, 0, 0, sort_keys, ensure_ascii), <<",", " ">>)
         \o <<"]">>

serialize_array(arr, indent, current_indent, sort_keys, ensure_ascii) ==
    IF arr = <<>> THEN <<"[", "]">>
    ELSE IF indent > 0
    THEN <<"[", NL>>
         \o Join(SerializeItems(arr, indent, current_indent + indent, sort_keys,
                                ensure_ascii), <<",", NL>>)
         \o <<NL>> \o Repeat(" ", current_indent) \o <<"]">>
    ELSE <<"[">> \o Join(SerializeItems(arr, 0, 0, sort_keys, ensure_ascii), <<",", " ">>)
         \o <<"]">>

RECURSIVE SerializeEntries(_, _, _, _, _)
SerializeEntries(keys, indent, inner_indent, sort_keys, ensure_ascii) ==
    [i \in 1..Len(keys) |->
        Repeat(" ", inner_indent)
        \o (IF isidentifier(keys[i][1]) /\ ~(keys[i][1][1] = "$") THEN keys[i][1]
            ELSE serialize_string(keys[i][1], ensure_ascii))
        \o <<":", " ">>
        \o serialize_value(keys[i][2], indent, inner_indent, sort_keys, ensure_ascii)]

serialize_object(obj, indent, current_indent, sort_keys, ensure_ascii) ==
    Let((IF sort_keys THEN Sorted(obj) ELSE obj), LAMBDA keys :
        IF obj = <<>> THEN <<"{", "}">>
        ELSE IF indent > 0
        THEN <<"{", NL>>
             \o Join(SerializeEntries(keys, indent, current_indent + indent, sort_keys,
                                      ensure_ascii), <<",", NL>>)
             \o <<NL>> \o Repeat(" ", current_indent) \o <<"}">>
        ELSE <<"{">> \o Join(SerializeEntries(keys, 0, 0, sort_keys, ensure_ascii),
                             <<",", " ">>)
             \o <<"}">>)

serialize_value(obj, indent, current_indent, sort_keys, ensure_ascii) ==
    IF obj.k = "null" THEN <<"n", "u", "l", "l">>
    ELSE IF obj.k = "bool"
    THEN IF obj.v THEN <<"t", "r", "u", "e">> ELSE <<"f", "a", "l", "s", "e">>
    ELSE IF obj.k = "BigInt" THEN BigInt_to_kjson_string(obj)
    ELSE IF obj.k = "Decimal128" THEN Decimal128_to_kjson_string(obj)
    ELSE IF obj.k = "Date" THEN Date_to_iso8601(obj)
    ELSE IF obj.k = "UUID" THEN UUID_str(obj)
    ELSE IF obj.k = "int" THEN obj.v
    ELSE IF obj.k = "float"
    THEN serialize_float(obj.v)
    ELSE IF obj.k = "str" THEN serialize_string(obj.v, ensure_ascii)
    ELSE IF obj.k = "list"
    THEN serialize_array(obj.v, indent, current_indent, sort_keys, ensure_ascii)
    ELSE IF obj.k = "dict"
    THEN serialize_object(obj.v, indent, current_indent, sort_keys, ensure_ascii)
    ELSE IF hasattr_dict(obj)
    THEN serialize_object(InstanceDict(obj), indent, current_indent, sort_keys,
                          ensure_ascii)
    ELSE json_dumps_str(obj.v, ensure_ascii)

\* dumps(obj, indent=, sort_keys=, ensure_ascii=) without a default function
dumps(o, options) ==
    serialize_value(o, options.indent, 0, options.sort_keys, options.ensure_ascii)

\* The default functions given to dumps: one that raises TypeError for
\* every object, and one that returns None for every object.
Defaults == {"TypeError", "None"}

RECURSIVE apply_default(_, _)
apply_default(obj, default) ==
    IF obj.k \in {"null", "bool", "int", "float", "str", "BigInt", "Decimal128", "Date",
                  "UUID"}
    THEN obj
    ELSE IF obj.k = "list"
    THEN [obj EXCEPT !.v = [i \in 1..Len(obj.v) |-> apply_default(obj.v[i], default)]]
    ELSE IF obj.k = "dict"
    THEN [obj EXCEPT !.v = [i \in 1..Len(obj.v) |->
                               <<obj.v[i][1], apply_default(obj.v[i][2], default)>>]]
    ELSE IF default = "TypeError" THEN obj
    ELSE [k |-> "null", v |-> 0]

\* dumps(obj, default=default, indent=, sort_keys=, ensure_ascii=)
dumps_default(o, options, default) == dumps(apply_default(o, default), options)

(***************************************************************************)
(* Python's == on the values                                               *)
(***************************************************************************)
IsNumber(x) == x.k \in {"bool", "int", "float"}

\* the number a bool, an int or a float stands for: True is 1, False is 0
NumValue(x) ==
    IF x.k = "bool" THEN NormDecimal(FALSE, IF x.v THEN <<"1">> ELSE <<"0">>, 0)
    ELSE IF x.k = "int"
    THEN NormDecimal(Head(x.v) = "-", IF Head(x.v) = "-" THEN Tail(x.v) ELSE x.v, 0)
    ELSE x.v

\* 0 == -0.0
NumEq(a, b) ==
    /\ NumValue(a).digits = NumValue(b).digits
    /\ NumValue(a).exp = NumValue(b).exp
    /\ NumValue(a).digits = <<>> \/ NumValue(a).neg = NumValue(b).neg

RECURSIVE PyEq(_, _)
PyEq(a, b) ==
    IF IsNumber(a) /\ IsNumber(b) THEN NumEq(a, b)
    ELSE IF a.k # b.k THEN FALSE
    ELSE IF a.k = "list"
    THEN Len(a.v) = Len(b.v) /\ \A i \in 1..Len(a.v) : PyEq(a.v[i], b.v[i])
    ELSE IF a.k = "dict"
    THEN /\ Len(a.v) = Len(b.v)
         /\ \A i \in 1..Len(a.v) :
               \E j \in 1..Len(b.v) : a.v[i][1] = b.v[j][1] /\ PyEq(a.v[i][2], b.v[j][2])
    ELSE IF a.k = "Decimal128" THEN Decimal128_eq(a, b)
    ELSE IF a.k = "Date" THEN Date_eq(a, b)
    ELSE a.v = b.v

(***************************************************************************)
(* Parser.parse, statement by statement                                    *)
(***************************************************************************)
DefaultOptions == [indent |-> 0, sort_keys |-> FALSE, ensure_ascii |-> FALSE]

\* Parser(text): the state of a parser that has not started
ParserInit(t) ==
    /\ text = t
    /\ pos = 0
    /\ length = Len(t)
    /\ result = NoValue
    /\ error = NoExc
    /\ pc = "start"

NoOperands == lhs = NoValue /\ rhs = NoValue /\ ret = NoValue

\* self.skip_whitespace() before the value
SkipLeading ==
    /\ pc = "start"
    /\ pos' = skip_whitespace(text, pos)
    /\ pc' = "value"
    /\ UNCHANGED <<text, length, result, error, original, opts, lhs, rhs, ret>>

\* what a parsing method leaves: the cursor with the value it returned, or
\* the exception it raised
Outcome(r) ==
    /\ pos' = r.pos
    /\ result' = r.val
    /\ error' = r.exc
    /\ pc' = IF r.ok THEN "trailing" ELSE "raised"

\* result = self.parse_value(); an exception leaves parse()
ParseValue ==
    /\ pc = "value"
    /\ Outcome(parse_value(text, pos))
    /\ UNCHANGED <<text, length, original, opts, lhs, rhs, ret>>

\* self.skip_whitespace() after the value
SkipTrailing ==
    /\ pc = "trailing"
    /\ pos' = skip_whitespace(text, pos)
    /\ pc' = "check"
    /\ UNCHANGED <<text, length, result, error, original, opts, lhs, rhs, ret>>

\* if self.pos < self.length: raise "Extra data"; return result
CheckEnd ==
    /\ pc = "check"
    /\ IF pos < length
       THEN /\ error' = JSONDecodeError("Extra data after JSON value", text, pos)
            /\ result' = NoValue
            /\ pc' = "raised"
       ELSE /\ pc' = "done"
            /\ UNCHANGED <<result, error>>
    /\ UNCHANGED <<text, pos, length, original, opts, lhs, rhs, ret>>

ParseNext == SkipLeading \/ ParseValue \/ SkipTrailing \/ CheckEnd

Returned == pc = "done"
Raised == pc = "raised"

\* every sequence over A of length at most n
TextsUpTo(A, n) == UNION {[1..k -> A] : k \in 0..n}

(***************************************************************************)
(* Parsing number texts                                                    *)
(***************************************************************************)
MaxNumLen == 4

NumberAlphabet == {"-", "+", "0", "1", ".", "e", "n", "m", Sup2}

\* a well-formed number that the lookahead of parse_value takes for a UUID
LongNumber ==
    <<"1", "2", "3", "4", "5", "6", "7", "e", "-", "1", "2", "3", "4", "5", "6", "7",
      "8", "9", "0", "1", "2", "3", "4", "5", "6", "7", "8", "9", "0", "1", "2", "3",
      "4">>

NumberTexts == TextsUpTo(NumberAlphabet, MaxNumLen) \cup {LongNumber}

InitNumber ==
    /\ \E t \in NumberTexts : ParserInit(t)
    /\ original = NoValue
    /\ opts = DefaultOptions
    /\ NoOperands

SpecNumber == InitNumber /\ [][ParseNext]_vars

\* The shape of a text as a number literal of the grammar: an optional '-',
\* an integer part without a leading zero, an optional fraction, an optional
\* exponent, an optional suffix n or m; ok when the whole text is one.
NumberShape(t) ==
    Let((IF current_char(t, 0) = "-" THEN 1 ELSE 0), LAMBDA p0 :
    Let(SpanEnd(t, p0, AsciiDigits), LAMBDA p1 :
    Let(current_char(t, p1) = ".", LAMBDA frac :
    Let((IF frac THEN SpanEnd(t, p1 + 1, AsciiDigits) ELSE p1), LAMBDA p2 :
    Let(current_char(t, p2) \in {"e", "E"}, LAMBDA exp :
    Let((IF exp /\ current_char(t, p2 + 1) \in {"+", "-"} THEN p2 + 2 ELSE p2 + 1), LAMBDA p3 :
    Let((IF exp THEN SpanEnd(t, p3, AsciiDigits) ELSE p2), LAMBDA p4 :
    Let((IF current_char(t, p4) \in {"n", "m"} THEN current_char(t, p4) ELSE NoChar), LAMBDA suffix :
    Let((IF suffix = NoChar THEN p4 ELSE p4 + 1), LAMBDA end :
        [ok |-> /\ p1 > p0
                /\ (p1 - p0 > 1 => current_char(t, p0) # "0")
                /\ (frac => p2 > p1 + 1)
                /\ (exp => p4 > p3)
                /\ end = Len(t),
         negative |-> p0 = 1,
         int |-> Slice(t, p0, p1),
         frac |-> frac,
         fraction |-> IF frac THEN Slice(t, p1 + 1, p2) ELSE <<>>,
         exp |-> exp,
         expNegative |-> exp /\ current_char(t, p2 + 1) = "-",
         exponent |-> IF exp THEN Slice(t, p3, p4) ELSE <<>>,
         suffix |-> suffix])))))))))

\* C2: every input that parse rejects is rejected by a JSONDecodeError that
\* carries a position inside the input and the line and column of that
\* position; nothing else leaves parse, and a failed parse holds no value.
C2_SingleErrorKind ==
    Raised =>
        /\ error.kind = "JSONDecodeError"
        /\ error.pos \in 0..Len(text)
        /\ error.lineno = 1 + Cardinality({i \in 1..error.pos : text[i] = NL})
        /\ \/ /\ error.colno = error.pos + 1
              /\ \A i \in 1..error.pos : text[i] # NL
           \/ \E i \in 1..error.pos :
                 /\ text[i] = NL
                 /\ \A j \in (i + 1)..error.pos : text[j] # NL
                 /\ error.colno = error.pos - i + 1
        /\ result.k = NoValue.k

\* the parse of a text whose every character str.isdigit() accepts and int()
\* rejects has left parse with a ValueError
C2_OtherKindEscapes ==
    Raised /\ error.kind = "ValueError" /\ text = <<Sup2>>

\* C5: a number literal with the suffix n is a BigInt when it has neither
\* fraction nor exponent and a fatal error otherwise; with the suffix m it is
\* a Decimal128; without a suffix it is a float when it has a fraction or an
\* exponent and an integer otherwise.
C5_SuffixTyping ==
    (NumberShape(text).ok /\ (Returned \/ Raised)) =>
        LET s == NumberShape(text)
        IN  IF s.suffix = "n"
            THEN IF s.frac \/ s.exp
                 THEN Raised /\ error.kind = "JSONDecodeError"
                 ELSE Returned /\ result.k = "BigInt"
            ELSE IF s.suffix = "m" THEN Returned /\ result.k = "Decimal128"
            ELSE IF s.frac \/ s.exp THEN Returned /\ result.k = "float"
            ELSE Returned /\ result.k = "int"

\* a number literal with an exponent and no suffix has been returned as a UUID
C5_NumberReturnedAsUUID ==
    Returned /\ NumberShape(text).ok /\ NumberShape(text).exp /\ result.k = "UUID"

\* C6: the digit string of the BigInt parsed from an accepted literal
\* (optional '-', digits, n) is the literal's digits with its sign, and
\* serializing the BigInt gives the literal back.
C6_BigIntExact ==
    (Returned /\ result.k = "BigInt") =>
        /\ BigInt_str(result) = Slice(text, 0, Len(text) - 1)
        /\ dumps(result, DefaultOptions) = text

\* the literal -0n has been parsed, and its sign is gone
C6_SignOfZeroLost ==
    Returned /\ text = <<"-", "0", "n">> /\ BigInt_str(result) = <<"0">>

\* the value a number literal denotes, in lowest terms
LiteralValue(s) ==
    NormDecimal(s.negative, s.int \o s.fraction,
                (IF s.expNegative THEN 0 - StrToNat(s.exponent, 10)
                 ELSE StrToNat(s.exponent, 10)) - Len(s.fraction))

\* C8: a Decimal128 made by the parser from an m-suffixed literal holds a
\* sign flag, a digits field of decimal digits only and an exponent, with
\* sign * digits * 10^exponent the value the literal denotes.
C8_DecimalRepresentation ==
    (Returned /\ result.k = "Decimal128" /\ NumberShape(text).ok) =>
        /\ result.v.negative \in BOOLEAN
        /\ result.v.digits # <<>>
        /\ AllIn(result.v.digits, AsciiDigits)
        /\ NormDecimal(result.v.negative, result.v.digits, result.v.exponent)
           = LiteralValue(NumberShape(text))

\* an exponential literal with the suffix m has been parsed, and its digits
\* field holds the letter e
C8_ExponentKeptInDigits ==
    /\ Returned
    /\ text = <<"1", "e", "1", "m">>
    /\ result.v.digits = <<"1", "e", "1">>
    /\ result.v.exponent = 0

(***************************************************************************)
(* Parsing a value and what follows it                                     *)
(***************************************************************************)
MaxTrailLen == 5

TrailAlphabet == {" ", "/", "*", "x", NL}

TrailingTexts == {<<"1">> \o s : s \in TextsUpTo(TrailAlphabet, MaxTrailLen)}

InitTrailing ==
    /\ \E t \in TrailingTexts : ParserInit(t)
    /\ original = NoValue
    /\ opts = DefaultOptions
    /\ NoOperands

SpecTrailing == InitTrailing /\ [][ParseNext]_vars

\* where "*/" stands at or after p
BlockCommentEnds(t, p) ==
    {q \in p..(Len(t) - 2) : t[q + 1] = "*" /\ t[q + 2] = "/"}

\* The first position at or after p that is neither whitespace nor inside a
\* comment: a line comment runs to the end of its line, a block comment to
\* its first "*/", and a block comment that is not closed runs to the end
\* of the input.
RECURSIVE InsignificantEnd(_, _)
InsignificantEnd(t, p) ==
    IF p >= Len(t) THEN Len(t)
    ELSE IF t[p + 1] \in {" ", TAB, NL, CR} THEN InsignificantEnd(t, p + 1)
    ELSE IF t[p + 1] = "/" /\ p + 1 < Len(t) /\ t[p + 2] = "/"
    THEN IF \E q \in (p + 2)..(Len(t) - 1) : t[q + 1] = NL
         THEN InsignificantEnd(t, CHOOSE q \in (p + 2)..(Len(t) - 1) :
                                     /\ t[q + 1] = NL
                                     /\ \A r \in (p + 2)..(q - 1) : t[r + 1] # NL)
         ELSE Len(t)
    ELSE IF t[p + 1] = "/" /\ p + 1 < Len(t) /\ t[p + 2] = "*"
    THEN IF BlockCommentEnds(t, p + 2) # {}
         THEN InsignificantEnd(t, 2 + CHOOSE q \in BlockCommentEnds(t, p + 2) :
                                         \A r \in BlockCommentEnds(t, p + 2) : q <= r)
         ELSE Len(t)
    ELSE p

\* C3: parse succeeds only if nothing but whitespace and comments follows
\* the value; when another character follows, parse fails with "Extra data"
\* at the index of the first such character.
C3_ExtraData ==
    Let(parse_value(text, skip_whitespace(text, 0)), LAMBDA v :
    Let(InsignificantEnd(text, v.pos), LAMBDA q :
        (v.ok /\ (Returned \/ Raised)) =>
            /\ Returned => q = Len(text)
            /\ q < Len(text) =>
                  /\ Raised
                  /\ error.kind = "JSONDecodeError"
                  /\ error.msg = "Extra data after JSON value"
                  /\ error.pos = q))

\* a value, a line comment, and on the next line a character that is extra
\* data: parse has failed at that character
C3_ExtraDataAfterComment ==
    /\ Raised
    /\ text = <<"1", "/", "/", "x", NL, "x">>
    /\ error.msg = "Extra data after JSON value"
    /\ error.pos = 5

(***************************************************************************)
(* Parsing bare UUID and timestamp literals                                *)
(***************************************************************************)
\* 2025-MM-DDTHH:MM:SS[.fffffffff]Z with fields in and out of range
TimestampTexts ==
    {<<"2", "0", "2", "5", "-">> \o mo \o <<"-">> \o d \o <<"T">> \o h \o <<":">>
     \o mi \o <<":">> \o sec \o f \o <<"Z">> :
        mo \in {<<"0", "1">>, <<"1", "3">>}, d \in {<<"1", "0">>, <<"4", "5">>},
        h \in {<<"1", "2">>, <<"2", "5">>}, mi \in {<<"0", "0">>, <<"9", "9">>},
        sec \in {<<"0", "0">>, <<"9", "9">>},
        f \in {<<>>, <<".", "1", "2", "3", "4", "5", "6", "7", "8", "9">>}}

\* 8-4-4-4-12 with each group filled by one hexadecimal digit
UuidTexts ==
    {Repeat(a, 8) \o <<"-">> \o Repeat(b, 4) \o <<"-">> \o Repeat(c, 4) \o <<"-">>
     \o Repeat(d, 4) \o <<"-">> \o Repeat(e, 12) :
        a \in {"0", "f", "A"}, b \in {"0", "f", "A"}, c \in {"0", "f", "A"},
        d \in {"0", "f", "A"}, e \in {"0", "f", "A"}}

InitLiteral ==
    /\ \E t \in TimestampTexts \cup UuidTexts : ParserInit(t)
    /\ original = NoValue
    /\ opts = DefaultOptions
    /\ NoOperands

SpecLiteral == InitLiteral /\ [][ParseNext]_vars

\* 8-4-4-4-12 hexadecimal digits
IsUuidToken(t) ==
    /\ Len(t) = 36
    /\ \A i \in 1..36 : IF i \in {9, 14, 19, 24} THEN t[i] = "-" ELSE t[i] \in HexDigits

\* YYYY-MM-DDTHH:MM:SS, an optional fraction, Z
IsTimestampToken(t) ==
    /\ Len(t) >= 20
    /\ t[Len(t)] = "Z"
    /\ \A i \in 1..19 :
          IF i \in {5, 8} THEN t[i] = "-"
          ELSE IF i = 11 THEN t[i] = "T"
          ELSE IF i \in {14, 17} THEN t[i] = ":"
          ELSE t[i] \in AsciiDigits
    /\ Len(t) > 20 => (t[20] = "." /\ \A i \in 21..(Len(t) - 1) : t[i] \in AsciiDigits)
    /\ Len(t) # 21

FieldsInRange(t) ==
    /\ StrToNat(Slice(t, 5, 7), 10) \in 1..12
    /\ StrToNat(Slice(t, 8, 10), 10)
          \in 1..DaysInMonth(StrToNat(Slice(t, 0, 4), 10), StrToNat(Slice(t, 5, 7), 10))
    /\ StrToNat(Slice(t, 11, 13), 10) \in 0..23
    /\ StrToNat(Slice(t, 14, 16), 10) \in 0..59
    /\ StrToNat(Slice(t, 17, 19), 10) \in 0..59

\* C4: a bare 8-4-4-4-12 token parses to a UUID, a bare valid timestamp to
\* an Instant, and a timestamp-shaped token with a field out of range makes
\* parse fail with a JSONDecodeError.
C4_BareLiterals ==
    (Returned \/ Raised) =>
        /\ IsUuidToken(text) => (Returned /\ result.k = "UUID")
        /\ (IsTimestampToken(text) /\ FieldsInRange(text)) =>
              (Returned /\ result.k = "Instant")
        /\ (IsTimestampToken(text) /\ ~FieldsInRange(text)) =>
              (Raised /\ error.kind = "JSONDecodeError")

\* the timestamp 2025-01-10T12:00:00Z has been parsed to a Date
C4_TimestampIsDate ==
    /\ Returned
    /\ text = <<"2", "0", "2", "5", "-", "0", "1", "-", "1", "0", "T", "1", "2", ":",
                "0", "0", ":", "0", "0", "Z">>
    /\ result.k = "Date"
    /\ result.v.utc = <<2025, 1, 10, 12, 0, 0, 0>>

(***************************************************************************)
(* Parsing arrays and objects                                              *)
(***************************************************************************)
MaxTokens == 5

ArrayTokens == {<<"[">>, <<"]">>, <<",">>, <<"1">>, <<"}">>}
ObjectTokens == {<<"{">>, <<"}">>, <<",">>, <<"a", ":", "1">>, <<"a", ":">>, <<"]">>}

ContainerTexts ==
    {Concat(ts) : ts \in TextsUpTo(ArrayTokens, MaxTokens)}
    \cup {Concat(ts) : ts \in TextsUpTo(ObjectTokens, MaxTokens)}

InitContainer ==
    /\ \E t \in ContainerTexts : ParserInit(t)
    /\ original = NoValue
    /\ opts = DefaultOptions
    /\ NoOperands

SpecContainer == InitContainer /\ [][ParseNext]_vars

\* a run of the digit 1 is one number
RECURSIVE OneNumberPerRun(_)
OneNumberPerRun(t) ==
    IF Len(t) < 2 THEN t
    ELSE IF t[1] = "1" /\ t[2] = "1" THEN OneNumberPerRun(Tail(t))
    ELSE <<Head(t)>> \o OneNumberPerRun(Tail(t))

\* what stands between the delimiters of an array: nothing, or elements
\* separated by single commas, with at most one comma after the last
ArrayBodyOk(b) ==
    \A i \in 1..Len(b) : IF i % 2 = 1 THEN b[i] \in {"1", "V"} ELSE b[i] = ","

\* the same for an object with entries a: element
ObjectBodyOk(b) ==
    /\ Len(b) % 4 \in {0, 3}
    /\ \A i \in 1..Len(b) :
          IF i % 4 = 1 THEN b[i] = "a"
          ELSE IF i % 4 = 2 THEN b[i] = ":"
          ELSE IF i % 4 = 3 THEN b[i] \in {"1", "V"}
          ELSE b[i] = ","

\* the innermost well-formed containers of t: <<i, j>> with an opening
\* delimiter at i, its closing delimiter at j, no delimiter between them
InnermostContainers(t) ==
    {ij \in (1..Len(t)) \X (1..Len(t)) :
        /\ ij[1] < ij[2]
        /\ \A m \in (ij[1] + 1)..(ij[2] - 1) : t[m] \notin {"[", "]", "{", "}"}
        /\ \/ /\ t[ij[1]] = "[" /\ t[ij[2]] = "]"
              /\ ArrayBodyOk(SubSeq(t, ij[1] + 1, ij[2] - 1))
           \/ /\ t[ij[1]] = "{" /\ t[ij[2]] = "}"
              /\ ObjectBodyOk(SubSeq(t, ij[1] + 1, ij[2] - 1))}

\* A text of container tokens is well formed when replacing innermost
\* well-formed containers by the value V, again and again, ends in one value.
RECURSIVE ReducesToValue(_)
ReducesToValue(t) ==
    IF InnermostContainers(t) = {} THEN t \in {<<"1">>, <<"V">>}
    ELSE LET ij == CHOOSE ij \in InnermostContainers(t) : TRUE
         IN  ReducesToValue(SubSeq(t, 1, ij[1] - 1) \o <<"V">>
                            \o SubSeq(t, ij[2] + 1, Len(t)))

WellFormedContainers(t) == ReducesToValue(OneNumberPerRun(t))

\* C10: arrays and objects may be empty and may have one trailing comma
\* before the closing delimiter; after an element anything but ',' or the
\* matching closing delimiter, a second comma in a row and a comma in an
\* empty container are fatal errors.  So a text of container tokens parses
\* exactly when each of its containers is empty or holds elements separated
\* by single commas with at most one trailing comma, and fails with a
\* JSONDecodeError otherwise.
C10_ContainerSeparators ==
    (Returned \/ Raised) =>
        /\ Returned <=> WellFormedContainers(text)
        /\ Raised => error.kind = "JSONDecodeError"

\* an array with a trailing comma has been parsed to its one element
C10_TrailingCommaAccepted ==
    /\ Returned
    /\ text = <<"[", "1", ",", "]">>
    /\ result = [k |-> "list", v |-> <<[k |-> "int", v |-> <<"1">>]>>]

(***************************************************************************)
(* Decimal128: construction from a string, comparison, string form         *)
(***************************************************************************)
MaxDecLen == 4

DecimalAlphabet == {"-", "0", "1", "."}

InitDecimal ==
    /\ text \in TextsUpTo(DecimalAlphabet, MaxDecLen)
    /\ pos = 0
    /\ length = Len(text)
    /\ result = NoValue
    /\ error = NoExc
    /\ pc = "new"
    /\ original = NoValue
    /\ opts = DefaultOptions
    /\ NoOperands

\* the Decimal128 the constructor made, or the exception it raised
Constructed(r) ==
    /\ lhs' = r.val
    /\ error' = r.exc
    /\ pc' = IF r.ok THEN "built" ELSE "raised"

\* lhs = Decimal128(text)
Construct ==
    /\ pc = "new"
    /\ Constructed(Decimal128_init(text))
    /\ UNCHANGED <<text, pos, length, result, original, opts, rhs, ret>>

\* The Decimal128 values lhs is compared with: Decimal128 of the same text,
\* of the text with one more zero, with a '-' in front and without its first
\* character.
OtherDecimals(t) ==
    {r.val : r \in {x \in {Decimal128_init(t), Decimal128_init(t \o <<"0">>),
                           Decimal128_init(<<"-">> \o t),
                           Decimal128_init(Slice(t, 1, Len(t)))} : x.ok}}

\* rhs = another Decimal128, or the plain number int() or float() makes of
\* the text
ChooseOther ==
    /\ pc = "built"
    /\ \/ rhs' \in OtherDecimals(text)
       \/ PyInt(text).ok /\ rhs' = [k |-> "int", v |-> PyInt(text).val]
       \/ PyFloat(text).ok /\ rhs' = [k |-> "float", v |-> PyFloat(text).val]
    /\ pc' = "paired"
    /\ UNCHANGED <<text, pos, length, result, error, original, opts, lhs, ret>>

\* ret = (lhs == rhs), with the hashes of the two
Compare ==
    /\ pc = "paired"
    /\ ret' = [eq |-> Decimal128_eq(lhs, rhs),
               hash |-> Decimal128_hash(lhs),
               other_hash |-> IF rhs.k = "Decimal128" THEN Decimal128_hash(rhs) ELSE <<>>]
    /\ pc' = "compared"
    /\ UNCHANGED <<text, pos, length, result, error, original, opts, lhs, rhs>>

\* ret = str(lhs)
Str ==
    /\ pc = "built"
    /\ ret' = [k |-> "str", v |-> Decimal128_str(lhs)]
    /\ pc' = "printed"
    /\ UNCHANGED <<text, pos, length, result, error, original, opts, lhs, rhs>>

DecimalNext == Construct \/ ChooseOther \/ Compare \/ Str

SpecDecimal == InitDecimal /\ [][DecimalNext]_vars

\* C7: two Decimal128 are equal exactly when sign, digits and exponent are
\* equal, so 1.0 and 1.00 are distinct; a Decimal128 is never equal to a
\* plain number; equal values have equal hashes.
C7_StructuralEquality ==
    pc = "compared" =>
        /\ ret.eq <=> (rhs.k = "Decimal128" /\ lhs.v.negative = rhs.v.negative
                       /\ lhs.v.digits = rhs.v.digits
                       /\ lhs.v.exponent = rhs.v.exponent)
        /\ rhs.k \in {"int", "float"} => ~ret.eq
        /\ ret.eq => ret.hash = ret.other_hash

\* 1.0 has been compared with 1.00 and found different
C7_TrailingZeroDistinct ==
    /\ pc = "compared"
    /\ text = <<"1", ".", "0">>
    /\ rhs.k = "Decimal128"
    /\ rhs.v.digits = <<"1", "0", "0">>
    /\ ~ret.eq

\* the number a decimal string [-]digits[.digits] denotes, in lowest terms
DecimalStringValue(s) ==
    Let(s # <<>> /\ Head(s) = "-", LAMBDA neg :
    Let((IF neg THEN 1 ELSE 0), LAMBDA p0 :
    Let(SpanEnd(s, p0, AsciiDigits), LAMBDA p1 :
    Let((IF current_char(s, p1) = "." THEN SpanEnd(s, p1 + 1, AsciiDigits) ELSE p1), LAMBDA p2 :
        [ok |-> p2 = Len(s) /\ (p2 - p0) - (IF p2 > p1 THEN 1 ELSE 0) > 0,
         value |-> NormDecimal(neg, Slice(s, p0, p1) \o Slice(s, p1 + 1, p2),
                               IF p2 > p1 THEN 0 - (p2 - p1 - 1) ELSE 0)]))))

\* C9: the string form of (sign, digits, exponent) denotes sign * digits *
\* 10^exponent, and str(Decimal128(s)) denotes what the decimal string s
\* denotes.
C9_CanonicalString ==
    (pc = "printed" /\ lhs.v.digits # <<>> /\ AllIn(lhs.v.digits, AsciiDigits)) =>
        /\ DecimalStringValue(ret.v).ok
        /\ DecimalStringValue(ret.v).value
           = NormDecimal(lhs.v.negative, lhs.v.digits, lhs.v.exponent)
        /\ DecimalStringValue(text).ok =>
              DecimalStringValue(ret.v).value = DecimalStringValue(text).value

\* Decimal128(".1") has been printed as 0.01
C9_OneZeroTooMany ==
    /\ pc = "printed"
    /\ text = <<".", "1">>
    /\ lhs.v = [negative |-> FALSE, digits |-> <<"1">>, exponent |-> -1]
    /\ ret.v = <<"0", ".", "0", "1">>

(***************************************************************************)
(* loads(dumps(v, options))                                                *)
(***************************************************************************)
MaxItems == 2

UuidText == <<"5", "5", "0", "e", "8", "4", "0", "0", "-", "e", "2", "9", "b", "-", "4", "1", "d", "4", "-", "a", "7", "1", "6", "-", "4", "4", "6", "6", "5", "5", "4", "4", "0", "0", "0", "0">>

TimestampZ == <<"2", "0", "2", "5", "-", "0", "1", "-", "1", "0", "T", "1", "2", ":", "0", "0", ":", "0", "0", "Z">>

TimestampOffset == <<"2", "0", "2", "5", "-", "0", "1", "-", "1", "0", "T", "1", "2", ":", "0", "0", ":", "0", "0", "+", "0", "5", ":", "3", "0">>

TimestampFraction == <<"2", "0", "2", "5", "-", "0", "1", "-", "1", "0", "T", "1", "2", ":", "0", "0", ":", "0", "0", ".", "1", "2", "3", "4", "5", "6", "Z">>

Str_(t) == [k |-> "str", v |-> t]
Int_(t) == [k |-> "int", v |-> t]

\* the values of the API that hold no other value
Scalars ==
    <<[k |-> "null", v |-> 0], [k |-> "bool", v |-> TRUE], [k |-> "bool", v |-> FALSE],
      Int_(<<"0">>), Int_(<<"-", "7">>), Int_(<<"1", "2">>),
      [k |-> "float", v |-> PyFloat(<<"1", ".", "5">>).val],
      [k |-> "float", v |-> PyFloat(<<"-", "2", "e", "-", "7">>).val],
      Str_(<<>>), Str_(<<"a", " ", "b">>), Str_(<<DQ>>), Str_(<<SQ, BT>>),
      Str_(<<BSL, "n">>), Str_(<<NL>>), Str_(<<EAcute>>), Str_(<<Emoji>>),
      BigInt_init(<<"1", "2", "3">>).val, BigInt_init(<<"-", "5">>).val,
      Decimal128_init(<<"1", ".", "5", "0">>).val, Decimal128_init(<<"-", "7">>).val,
      Decimal128_init(<<".", "5">>).val,
      PyUUID(UuidText).val,
      Date_init(TimestampZ).val, Date_init(TimestampOffset).val,
      Date_init(TimestampFraction).val,
      [k |-> "Instant", v |-> Int_(<<"5">>)],
      [k |-> "Duration", v |-> Int_(<<"5">>)]>>

\* the elements of the arrays and objects
Elements ==
    <<[k |-> "null", v |-> 0], Int_(<<"1", "2">>), Str_(<<"a", " ", "b">>),
      BigInt_init(<<"-", "5">>).val, Decimal128_init(<<"1", ".", "5", "0">>).val,
      PyUUID(UuidText).val, Date_init(TimestampZ).val,
      [k |-> "list", v |-> <<>>], [k |-> "dict", v |-> <<>>],
      [k |-> "list", v |-> <<Int_(<<"0">>)>>],
      [k |-> "dict", v |-> <<<<<<"k">>, Int_(<<"0">>)>>>>]>>

Keys == {<<"b">>, <<"a", "1">>, <<"a", " ", "b">>, <<>>}

\* the list of the elements chosen by f
ListOf(f) == [k |-> "list", v |-> [i \in DOMAIN f |-> Elements[f[i]]]]

\* the dict of the keys chosen by g with the elements chosen by f
DictOf(g, f) == [k |-> "dict", v |-> [i \in DOMAIN f |-> <<g[i], Elements[f[i]]>>]]

\* original is a scalar, a list or a dict; a dict holds each key once
RoundTripValue ==
    \/ \E i \in 1..Len(Scalars) : original = Scalars[i]
    \/ \E n \in 0..MaxItems : \E f \in [1..n -> 1..Len(Elements)] : original = ListOf(f)
    \/ \E n \in 0..MaxItems : \E f \in [1..n -> 1..Len(Elements)], g \in [1..n -> Keys] :
          /\ \A i, j \in 1..n : g[i] = g[j] => i = j
          /\ original = DictOf(g, f)

Options == [indent : {0, 2}, sort_keys : BOOLEAN, ensure_ascii : BOOLEAN]

InitRoundTrip ==
    /\ RoundTripValue
    /\ opts \in Options
    /\ text = <<>>
    /\ pos = 0
    /\ length = 0
    /\ result = NoValue
    /\ error = NoExc
    /\ pc = "dumps"
    /\ NoOperands

\* text = dumps(original, **opts); the parser is constructed on it
Dumps ==
    /\ pc = "dumps"
    /\ text' = dumps(original, opts)
    /\ pos' = 0
    /\ length' = Len(text')
    /\ pc' = "start"
    /\ UNCHANGED <<result, error, original, opts, lhs, rhs, ret>>

RoundTripNext == Dumps \/ ParseNext

SpecRoundTrip == InitRoundTrip /\ [][RoundTripNext]_vars

\* C1: for every value built from null, booleans, integers, finite floats,
\* strings, arrays, objects with string keys, BigInt, Decimal128, Instant,
\* Date, Duration and UUID, and for every combination of indent, sort_keys
\* and ensure_ascii, loads(dumps(v, options)) returns a value equal to v.
C1_RoundTrip ==
    (Returned \/ Raised) => (Returned /\ PyEq(result, original))

\* an Instant has been written as an object and read back as a dict
C1_InstantReadAsDict ==
    /\ Returned
    /\ original.k = "Instant"
    /\ result.k = "dict"

(***************************************************************************)
(* Parsing quoted strings                                                  *)
(***************************************************************************)
MaxPieces == 2

\* what a string body is made of: ordinary characters, the three quote
\* characters, every escape of parse_string, and backslashes followed by
\* something else
Pieces ==
    {<<"x">>, <<"u">>, <<DQ>>, <<SQ>>, <<BT>>,
     <<BSL, DQ>>, <<BSL, SQ>>, <<BSL, BT>>, <<BSL, BSL>>, <<BSL, "/">>, <<BSL, "b">>,
     <<BSL, "f">>, <<BSL, "n">>, <<BSL, "r">>, <<BSL, "t">>,
     <<BSL, "u", "0", "0", "4", "1">>, <<BSL, "u", "0", "0", "e", "9">>,
     <<BSL, "u", "0", "0", "E", "9">>,
     <<BSL, "x">>, <<BSL, "u", "+", "0", "4", "1">>, <<BSL, "u", "0", "0", "4">>,
     <<BSL, "u">>, <<BSL>>}

StringTexts ==
    {<<q>> \o Concat(b) : q \in {DQ, SQ, BT}, b \in TextsUpTo(Pieces, MaxPieces)}

InitString ==
    /\ \E t \in StringTexts : ParserInit(t)
    /\ original = NoValue
    /\ opts = DefaultOptions
    /\ NoOperands

SpecString == InitString /\ [][ParseNext]_vars

\* the character each one-letter escape stands for
EscapeMeaning ==
    <<<<DQ, DQ>>, <<SQ, SQ>>, <<BT, BT>>, <<BSL, BSL>>, <<"/", "/">>, <<"b", BS>>,
      <<"f", FF>>, <<"n", NL>>, <<"r", CR>>, <<"t", TAB>>>>

\* The string that starts after an opening quote q, read as the grammar has
\* it: up to the first q outside an escape; a backslash is followed by a
\* one-letter escape or by u and exactly four hexadecimal digits.
\* [ok, end, val, valid]: valid says that no backslash was followed by
\* anything else, whether or not the closing quote was found.
RECURSIVE Decode(_, _, _, _)
Decode(t, p, q, acc) ==
    IF p >= Len(t) THEN [ok |-> FALSE, end |-> p, val |-> acc, valid |-> TRUE]
    ELSE IF t[p + 1] = q THEN [ok |-> TRUE, end |-> p + 1, val |-> acc, valid |-> TRUE]
    ELSE IF t[p + 1] # BSL THEN Decode(t, p + 1, q, Append(acc, t[p + 1]))
    ELSE IF p + 1 >= Len(t) THEN [ok |-> FALSE, end |-> p + 1, val |-> acc, valid |-> TRUE]
    ELSE IF \E i \in 1..Len(EscapeMeaning) : EscapeMeaning[i][1] = t[p + 2]
    THEN Decode(t, p + 2, q,
                Append(acc, EscapeMeaning[CHOOSE i \in 1..Len(EscapeMeaning) :
                                             EscapeMeaning[i][1] = t[p + 2]][2]))
    ELSE IF t[p + 2] = "u" /\ p + 6 <= Len(t) /\ \A i \in 3..6 : t[p + i] \in HexDigits
    THEN Decode(t, p + 6, q, Append(acc, chr(StrToNat(SubSeq(t, p + 3, p + 6), 16))))
    ELSE [ok |-> FALSE, end |-> p + 1, val |-> acc, valid |-> FALSE]

\* parse has done with a string what the grammar says of it
AsDecoded(d) ==
    /\ (d.ok /\ d.end = Len(text)) =>
          (Returned /\ result.k = "str" /\ result.v = d.val)
    /\ ~d.ok => (Raised /\ error.kind = "JSONDecodeError")

\* C11: a quoted string in any of the three quote styles decodes the escapes
\* \" \' \` \\ \/ \b \f \n \r \t and \u with exactly four hexadecimal digits;
\* any other character after a backslash, a \u that four hexadecimal digits
\* do not follow, and a string without the closing quote of its style are
\* each a fatal error.
C11_StringEscapes ==
    (Returned \/ Raised) => AsDecoded(Decode(text, 1, text[1], <<>>))

\* "\u+041" has been parsed to the string A
C11_SignedEscapeAccepted ==
    /\ Returned
    /\ text = <<DQ, BSL, "u", "+", "0", "4", "1", DQ>>
    /\ result.v = <<"A">>

\* the input ends inside the string d was read from, and no backslash
\* before the end is followed by anything but an escape
Unterminated(d) == ~d.ok /\ d.valid

OpenBlockCommentAt(t, p) ==
    /\ p + 2 <= Len(t)
    /\ t[p + 1] = "/"
    /\ t[p + 2] = "*"
    /\ BlockCommentEnds(t, p + 2) = {}

\* the value 1, spaces, and a block comment that is not closed
ValueThenOpenBlockComment(t) ==
    \E p \in 1..(Len(t) - 2) :
        /\ \A i \in 1..(p - 1) : t[i + 1] = " "
        /\ OpenBlockCommentAt(t, p)

\* C12: a block comment that is not closed is consumed to the end of the
\* input without error, whatever characters it holds: a complete value
\* followed by such a comment parses successfully to that value.
C12_OpenBlockCommentConsumed ==
    ((Returned \/ Raised) /\ ValueThenOpenBlockComment(text)) =>
        (Returned /\ result.k = "int" /\ result.v = <<"1">>)

\* 1/*x has been rejected: the last character of the comment is extra data
C12_LastCharacterLeft ==
    /\ Raised
    /\ text = <<"1", "/", "*", "x">>
    /\ error.msg = "Extra data after JSON value"
    /\ error.pos = 3

(***************************************************************************)
(* Serializing strings: the quote style                                    *)
(***************************************************************************)
MaxStrLen == 3

QuoteAlphabet == {SQ, DQ, BT, BSL, "x"}

\* dumps(s, ensure_ascii=...) for the strings over QuoteAlphabet
InitQuote ==
    /\ \E s \in TextsUpTo(QuoteAlphabet, MaxStrLen) : original = [k |-> "str", v |-> s]
    /\ opts \in {o \in Options : o.indent = 0 /\ ~o.sort_keys}
    /\ text = <<>>
    /\ pos = 0
    /\ length = 0
    /\ result = NoValue
    /\ error = NoExc
    /\ pc = "dumps"
    /\ NoOperands

SpecQuote == InitQuote /\ [][RoundTripNext]_vars

\* occurrences of the quote character plus occurrences of backslash
QuoteCost(s, q) == Count(s, q) + Count(s, BSL)

\* single before double before backtick
QuotePreference == <<SQ, DQ, BT>>

\* the style of least cost, the earlier one on equal cost
SmartQuote(s) ==
    QuotePreference[CHOOSE i \in 1..3 : \A j \in 1..3 :
        \/ QuoteCost(s, QuotePreference[i]) < QuoteCost(s, QuotePreference[j])
        \/ QuoteCost(s, QuotePreference[i]) = QuoteCost(s, QuotePreference[j]) /\ i <= j]

\* t is wrapped in q
WrappedIn(t, q) == Len(t) >= 2 /\ t[1] = q /\ t[Len(t)] = q

\* s holds the characters of has and none of hasnot
Holds(s, has, hasnot) ==
    /\ \A c \in has : Count(s, c) > 0
    /\ \A c \in hasnot : Count(s, c) = 0

\* C14: every string is wrapped in the quote style whose cost (occurrences
\* of that quote character plus occurrences of backslash) is least among
\* single, double and backtick, single before double before backtick on
\* equal cost; so a string with only single quotes gets double quotes, one
\* with only double quotes gets single quotes, one with both gets backticks.
C14_SmartQuote ==
    pc # "dumps" =>
        /\ WrappedIn(text, SmartQuote(original.v))
        /\ Holds(original.v, {SQ}, {DQ, BT}) => WrappedIn(text, DQ)
        /\ Holds(original.v, {DQ}, {SQ, BT}) => WrappedIn(text, SQ)
        /\ Holds(original.v, {SQ, DQ}, {BT}) => WrappedIn(text, BT)

\* a string of equal cost in double quotes and backticks has been written
\* in double quotes
C14_TieKeepsDoubleQuotes ==
    /\ Returned
    /\ original.v = <<SQ, "x">>
    /\ text = <<DQ, SQ, "x", DQ>>

(***************************************************************************)
(* Serializing object keys                                                 *)
(***************************************************************************)
MaxKeyLen == 3

KeyAlphabet == {"a", "b", "1", "_", "$", "-", " "}

\* dumps({key: 1}, ensure_ascii=...) for the keys over KeyAlphabet
InitKey ==
    /\ \E key \in TextsUpTo(KeyAlphabet, MaxKeyLen) :
           original = [k |-> "dict", v |-> <<<<key, Int_(<<"1">>)>>>>]
    /\ opts \in {o \in Options : o.indent = 0 /\ ~o.sort_keys}
    /\ text = <<>>
    /\ pos = 0
    /\ length = 0
    /\ result = NoValue
    /\ error = NoExc
    /\ pc = "dumps"
    /\ NoOperands

SpecKey == InitKey /\ [][RoundTripNext]_vars

\* the grammar of unquoted keys: a letter, "_" or "$", then letters,
\* digits, "_", "$" and "-"
UnquotedKeyGrammar(key) ==
    /\ key # <<>>
    /\ isalpha(key[1]) \/ key[1] \in {"_", "$"}
    /\ \A i \in 2..Len(key) : isalnum(key[i]) \/ key[i] \in {"_", "$", "-"}

\* the text of an object with the one entry key: 1, its key written as
\* written_key
OneEntry(written_key) == <<"{">> \o written_key \o <<":", " ", "1", "}">>

\* the key is written bare exactly when bare holds, and in quotes otherwise
KeyWritten(key, bare) ==
    /\ bare <=> text = OneEntry(key)
    /\ ~bare => /\ text = OneEntry(serialize_string(key, opts.ensure_ascii))
                /\ WrappedIn(serialize_string(key, opts.ensure_ascii), SmartQuote(key))

\* C15: the serializer writes a key bare exactly when the key matches the
\* parser's unquoted-key grammar (first a letter, "_" or "$"; then letters,
\* digits, "_", "$" or "-") and does not begin with "$"; every other key is
\* written by the smart-quote algorithm.
C15_BareKeys ==
    pc # "dumps" =>
        KeyWritten(original.v[1][1],
                   UnquotedKeyGrammar(original.v[1][1]) /\ Head(original.v[1][1]) # "$")

\* the key a-b, which the parser reads bare, has been written in quotes
C15_HyphenKeyQuoted ==
    /\ Returned
    /\ original.v[1][1] = <<"a", "-", "b">>
    /\ text = <<"{", SQ, "a", "-", "b", SQ, ":", " ", "1", "}">>

(***************************************************************************)
(* Serializing with ensure_ascii                                           *)
(***************************************************************************)
MaxWideLen == 3

\* U+00E9, U+4E16 and U+1F600 beside ASCII characters; a key with a space
\* in it is written in quotes
WideAlphabet == {"x", " ", EAcute, CJK, Emoji}

\* dumps(s, ensure_ascii=...) and dumps({s: 1}, ensure_ascii=...)
InitWide ==
    /\ \E s \in TextsUpTo(WideAlphabet, MaxWideLen) :
           \/ original = [k |-> "str", v |-> s]
           \/ original = [k |-> "dict", v |-> <<<<s, Int_(<<"1">>)>>>>]
    /\ opts \in {o \in Options : o.indent = 0 /\ ~o.sort_keys}
    /\ text = <<>>
    /\ pos = 0
    /\ length = 0
    /\ result = NoValue
    /\ error = NoExc
    /\ pc = "dumps"
    /\ NoOperands

SpecWide == InitWide /\ [][RoundTripNext]_vars

\* the string written, and where its opening quote stands in the text: at
\* 0 for a string value, after the "{" for a key
WrittenString == IF original.k = "str" THEN original.v ELSE original.v[1][1]
QuoteAt == IF original.k = "str" THEN 0 ELSE 1

\* every character of t is an ASCII character
IsAscii(t) == \A i \in 1..Len(t) : ord(t[i]) < 128

\* the string behind the opening quote at p holds only escapes that the
\* parser decodes, and decodes to s when the code points of s fit in four
\* hexadecimal digits
DecodesTo(d, s) ==
    /\ d.ok
    /\ (\A i \in 1..Len(s) : ord(s[i]) < 65536) => d.val = s

\* C16: with ensure_ascii every code point outside ASCII of a string or of
\* a quoted key is written as a \uXXXX escape: the output holds only ASCII
\* characters and only escapes that the parser decodes, for code points in
\* U+0080-U+00FF, in the rest of the BMP and above U+FFFF.
C16_AsciiEscapes ==
    (pc # "dumps" /\ opts.ensure_ascii /\ text[QuoteAt + 1] \in {SQ, DQ, BT}) =>
        /\ IsAscii(text)
        /\ DecodesTo(Decode(text, QuoteAt + 1, text[QuoteAt + 1], <<>>), WrittenString)

\* U+00E9 has been written as \xe9, which the parser rejects
C16_LatinWrittenAsX ==
    /\ Raised
    /\ opts.ensure_ascii
    /\ original.k = "str"
    /\ original.v = <<EAcute>>
    /\ text = <<SQ, BSL, "x", "e", "9", SQ>>
    /\ error.msg = "Invalid escape sequence"

(***************************************************************************)
(* Pretty-printing                                                         *)
(***************************************************************************)
MaxDepth == 2
MaxIndent == 3

\* One container of a nest: an array or an object that holds the next
\* container of the nest, after the integer 1 when first is set, and before
\* an empty array (last = 2) or an empty object (last = 3).
Level == [kind : {"list", "dict"}, first : BOOLEAN, last : 1..3]

\* what stands at the bottom of a nest, and beside the containers
LeafValues == <<Int_(<<"1">>), [k |-> "list", v |-> <<>>], [k |-> "dict", v |-> <<>>]>>

PrettyKeys == <<<<"a">>, <<"b">>, <<"c">>>>

\* the array or object of the elements elems
Container(kind, elems) ==
    IF kind = "list" THEN [k |-> "list", v |-> elems]
    ELSE [k |-> "dict", v |-> [i \in 1..Len(elems) |-> <<PrettyKeys[i], elems[i]>>]]

RECURSIVE Nested(_, _)
Nested(levels, leaf) ==
    IF levels = <<>> THEN LeafValues[leaf]
    ELSE Container(Head(levels).kind,
                   (IF Head(levels).first THEN <<LeafValues[1]>> ELSE <<>>)
                   \o <<Nested(Tail(levels), leaf)>>
                   \o (IF Head(levels).last = 1 THEN <<>>
                       ELSE <<LeafValues[Head(levels).last]>>))

PrettyOptions == [indent : 0..MaxIndent, sort_keys : {FALSE}, ensure_ascii : {FALSE}]

\* dumps(v, indent=...) for the nests of up to MaxDepth containers
InitPretty ==
    /\ \E d \in 0..MaxDepth : \E levels \in [1..d -> Level] : \E leaf \in 1..3 :
           original = Nested(levels, leaf)
    /\ opts \in PrettyOptions
    /\ text = <<>>
    /\ pos = 0
    /\ length = 0
    /\ result = NoValue
    /\ error = NoExc
    /\ pc = "dumps"
    /\ NoOperands

SpecPretty == InitPretty /\ [][RoundTripNext]_vars

\* the lines of a text
RECURSIVE TextLines(_)
TextLines(t) ==
    IF \E i \in 1..Len(t) : t[i] = NL
    THEN <<SubSeq(t, 1, (CHOOSE i \in 1..Len(t) :
                            t[i] = NL /\ \A j \in 1..(i - 1) : t[j] # NL) - 1)>>
         \o TextLines(SubSeq(t, 1 + (CHOOSE i \in 1..Len(t) :
                                         t[i] = NL /\ \A j \in 1..(i - 1) : t[j] # NL),
                              Len(t)))
    ELSE <<t>>

\* the spaces a line starts with, and the line without them
RECURSIVE LeadingSpaces(_)
LeadingSpaces(l) ==
    IF l # <<>> /\ Head(l) = " " THEN 1 + LeadingSpaces(Tail(l)) ELSE 0

Body(l) == SubSeq(l, LeadingSpaces(l) + 1, Len(l))

\* a line that opens a container, and a line that closes one
EndsOpen(l) == l # <<>> /\ l[Len(l)] \in {"[", "{"}
StartsClose(l) == Body(l) # <<>> /\ Body(l)[1] \in {"]", "}"}
EndsComma(l) == l # <<>> /\ l[Len(l)] = ","

\* the containers open before line i
DepthAt(ls, i) ==
    Cardinality({j \in 1..(i - 1) : EndsOpen(ls[j])})
    - Cardinality({j \in 1..(i - 1) : StartsClose(ls[j])})

\* a line body without the comma at its end and without the key before
\* its value
WithoutComma(b) == IF EndsComma(b) THEN SubSeq(b, 1, Len(b) - 1) ELSE b
WithoutKey(b) ==
    IF Len(b) >= 3 /\ b[2] = ":" /\ b[3] = " " THEN SubSeq(b, 4, Len(b)) ELSE b

\* line i holds one element (a scalar, an empty container, or the opening
\* of a container) after n spaces for each open container, or one closing
\* delimiter after n spaces for each container that stays open
LineOk(ls, i, n) ==
    IF StartsClose(ls[i])
    THEN /\ LeadingSpaces(ls[i]) = n * (DepthAt(ls, i) - 1)
         /\ WithoutComma(Body(ls[i])) \in {<<"]">>, <<"}">>}
    ELSE /\ LeadingSpaces(ls[i]) = n * DepthAt(ls, i)
         /\ WithoutKey(WithoutComma(Body(ls[i])))
                \in {<<"1">>, <<"[", "]">>, <<"{", "}">>, <<"[">>, <<"{">>}

\* a comma ends line i exactly when another element follows it
CommaOk(ls, i) ==
    EndsComma(ls[i]) <=>
        (i < Len(ls) /\ ~StartsClose(ls[i + 1]) /\ ~EndsOpen(ls[i]))

PrettyLayout(ls, n) ==
    \A i \in 1..Len(ls) : LineOk(ls, i, n) /\ CommaOk(ls, i)

\* the elements of all the containers in a value
\* the values a container holds
ElementValues(x) ==
    IF x.k = "list" THEN x.v ELSE [i \in 1..Len(x.v) |-> x.v[i][2]]

IsContainer(x) == x.k \in {"list", "dict"}

RECURSIVE CountElements(_)
RECURSIVE CountElementsOf(_)
CountElementsOf(vs) ==
    IF vs = <<>> THEN 0
    ELSE 1 + CountElements(Head(vs)) + CountElementsOf(Tail(vs))

CountElements(x) == IF IsContainer(x) THEN CountElementsOf(ElementValues(x)) ELSE 0

\* the containers in a value that are empty (empty = TRUE), or that are not
RECURSIVE CountContainers(_, _)
RECURSIVE CountContainersOf(_, _)
CountContainersOf(vs, empty) ==
    IF vs = <<>> THEN 0
    ELSE CountContainers(Head(vs), empty) + CountContainersOf(Tail(vs), empty)

CountContainers(x, empty) ==
    IF IsContainer(x)
    THEN (IF (x.v = <<>>) = empty THEN 1 ELSE 0)
         + CountContainersOf(ElementValues(x), empty)
    ELSE 0

\* the places of a text where [] or {} stands
EmptyPairs(t) ==
    {i \in 1..(Len(t) - 1) : <<t[i], t[i + 1]>> \in {<<"[", "]">>, <<"{", "}">>}}

\* C17: with indent N > 0 every element of a non-empty container at depth d
\* is on a line of its own after exactly N*d spaces, a comma ends the line
\* of every element but the last of its container, the closing delimiter is
\* on a line of its own after N*(d-1) spaces; empty arrays and objects are
\* written [] and {} at every depth and for every indent.
C17_PrettyLayout ==
    pc # "dumps" =>
        /\ Cardinality(EmptyPairs(text)) = CountContainers(original, TRUE)
        /\ opts.indent > 0 =>
              /\ PrettyLayout(TextLines(text), opts.indent)
              /\ Len(TextLines(text))
                     = 1 + CountElements(original) + CountContainers(original, FALSE)

\* [1, {a: []}, {}] has been written with indent 2 on six lines
C17_NestedObjectInArray ==
    /\ Returned
    /\ opts.indent = 2
    /\ TextLines(text) = << <<"[">>,
                             <<" ", " ", "1", ",">>,
                             <<" ", " ", "{">>,
                             <<" ", " ", " ", " ", "a", ":", " ", "[", "]">>,
                             <<" ", " ", "}", ",">>,
                             <<" ", " ", "{", "}">>,
                             <<"]">> >>

(***************************************************************************)
(* Serializing objects: the order of the keys                              *)
(***************************************************************************)
MaxKeys == 3

SortKeySet == {<<"a">>, <<"b">>, <<"a", "b">>, <<"B">>}

\* the orders in which up to n different keys are inserted
KeyOrders(n) ==
    {ks \in TextsUpTo(SortKeySet, n) :
        ks # <<>> /\ \A i, j \in 1..Len(ks) : ks[i] = ks[j] => i = j}

\* the object with the keys ks, inserted in that order
ObjectOf(ks) == [k |-> "dict", v |-> [i \in 1..Len(ks) |-> <<ks[i], Int_(<<"1">>)>>]]

ArrayOf(elems) == [k |-> "list", v |-> elems]

\* an object, two objects in an array, two objects in an object, and
\* objects in an object and an array in an array
SortValue(v) ==
    \/ \E ks \in KeyOrders(MaxKeys) : v = ObjectOf(ks)
    \/ \E k1 \in KeyOrders(MaxKeys - 1), k2 \in KeyOrders(2) :
          \/ v = ArrayOf(<<ObjectOf(k1), ObjectOf(k2)>>)
          \/ v = [k |-> "dict", v |-> << <<<<"b">>, ObjectOf(k1)>>, <<<<"a">>, ObjectOf(k2)>> >>]
          \/ v = ArrayOf(<<[k |-> "dict",
                            v |-> << <<<<"b">>, ArrayOf(<<ObjectOf(k1)>>)>>,
                                     <<<<"a">>, ObjectOf(k2)>> >>]>>)

\* dumps(v, indent=..., sort_keys=...)
InitSort ==
    /\ SortValue(original)
    /\ opts \in {o \in Options : ~o.ensure_ascii}
    /\ text = <<>>
    /\ pos = 0
    /\ length = 0
    /\ result = NoValue
    /\ error = NoExc
    /\ pc = "dumps"
    /\ NoOperands

SpecSort == InitSort /\ [][RoundTripNext]_vars

\* where the key that ends before position j of a text starts
RECURSIVE KeyStart(_, _)
KeyStart(t, j) ==
    IF j >= 1 /\ t[j] \notin {" ", NL, "{", "[", ","} THEN KeyStart(t, j - 1) ELSE j + 1

\* the key written before the colon at i
KeyBefore(t, i) == SubSeq(t, KeyStart(t, i - 1), i - 1)

\* the keys of a text, in the order written
RECURSIVE TextKeys(_, _)
TextKeys(t, i) ==
    IF i > Len(t) THEN <<>>
    ELSE IF t[i] = ":" THEN <<KeyBefore(t, i)>> \o TextKeys(t, i + 1)
    ELSE TextKeys(t, i + 1)

\* the keys of a value, in the order inserted, an object's own key before
\* the keys of the value under it
RECURSIVE AllKeys(_)
RECURSIVE AllKeysOf(_)
AllKeysOf(items) ==
    IF items = <<>> THEN <<>>
    ELSE <<Head(items)[1]>> \o AllKeys(Head(items)[2]) \o AllKeysOf(Tail(items))

AllKeys(x) ==
    IF x.k = "dict" THEN AllKeysOf(x.v)
    ELSE IF x.k = "list" /\ x.v # <<>>
    THEN AllKeys(Head(x.v)) \o AllKeys(ArrayOf(Tail(x.v)))
    ELSE <<>>

\* the containers open at position i of a text
NestingAt(t, i) ==
    Cardinality({j \in 1..(i - 1) : t[j] \in {"[", "{"}})
    - Cardinality({j \in 1..(i - 1) : t[j] \in {"]", "}"}})

\* the colons at i and j follow keys of one object
SameObject(t, i, j) ==
    /\ t[i] = ":"
    /\ t[j] = ":"
    /\ \A m \in i..j : NestingAt(t, m) >= NestingAt(t, i)
    /\ NestingAt(t, j) = NestingAt(t, i)

\* in every object of the text a key is less than the keys after it
KeysAscending(t) ==
    \A i, j \in 1..Len(t) :
        (i < j /\ SameObject(t, i, j)) => StrLess(KeyBefore(t, i), KeyBefore(t, j))

\* C18: with sort_keys the keys of every object at every nesting level,
\* objects inside arrays included, are written in ascending order, in
\* compact and in pretty output; without sort_keys they are written in
\* insertion order.
C18_KeyOrder ==
    pc # "dumps" =>
        /\ Len(TextKeys(text, 1)) = Len(AllKeys(original))
        /\ opts.sort_keys => KeysAscending(text)
        /\ ~opts.sort_keys => TextKeys(text, 1) = AllKeys(original)

\* the objects {b: 1, B: 1} and {ab: 1, a: 1} in an array have been written
\* with sort_keys, pretty-printed, each with its keys in ascending order
C18_SortedInsideArray ==
    /\ Returned
    /\ opts.sort_keys
    /\ opts.indent = 2
    /\ original = ArrayOf(<<ObjectOf(<<<<"b">>, <<"B">>>>), ObjectOf(<<<<"a", "b">>, <<"a">>>>)>>)
    /\ TextKeys(text, 1) = <<<<"B">>, <<"b">>, <<"a">>, <<"a", "b">>>>

(***************************************************************************)
(* Serializing Instant, Duration and UUID values                           *)
(***************************************************************************)
\* a timestamp in Zulu time: it starts with the digits of the year and
\* ends with Z
IsZuluText(t) == t # <<>> /\ t[1] \in AsciiDigits /\ t[Len(t)] = "Z"

\* an ISO-8601 duration: P..., or -P... for a negative one
IsDurationText(t) ==
    \/ Len(t) >= 2 /\ t[1] = "P"
    \/ Len(t) >= 3 /\ t[1] = "-" /\ t[2] = "P"

\* 8-4-4-4-12 lowercase hexadecimal digits
IsLowerUuidText(t) ==
    /\ Len(t) = 36
    /\ \A i \in 1..36 : IF i \in {9, 14, 19, 24} THEN t[i] = "-"
                        ELSE t[i] \in AsciiDigits \cup LowerHex

\* the text t is the bare form of the value x
BareForm(x, t) ==
    /\ x.k = "Instant" => IsZuluText(t)
    /\ x.k = "Duration" => IsDurationText(t)
    /\ x.k = "UUID" => IsLowerUuidText(t)

\* C19: an Instant is written as its bare canonical Zulu ISO-8601 text, a
\* Duration as its bare ISO-8601 duration text, a UUID as bare lowercase
\* hyphenated hexadecimal digits; none of them as a quoted string or as an
\* object.
C19_BareTemporalAndUuid ==
    (pc # "dumps" /\ original.k \in {"Instant", "Duration", "UUID"}) =>
        /\ text[1] \notin {"{", DQ, SQ, BT}
        /\ BareForm(original, text)

\* Duration(5) has been written as the object {nanoseconds: 5}
C19_DurationWrittenAsObject ==
    /\ pc # "dumps"
    /\ original.k = "Duration"
    /\ text = <<"{", "n", "a", "n", "o", "s", "e", "c", "o", "n", "d", "s", ":", " ", "5", "}">>

(***************************************************************************)
(* Serializing values of other types                                       *)
(***************************************************************************)
\* str(obj) of objects that are none of the types of the API and have no
\* __dict__: the set {1, 2}, the bytes b'ab', the complex number 1+2j, and
\* an object with a non-ASCII character and a double quote in its str()
OtherTexts ==
    {<<"{", "1", ",", " ", "2", "}">>, <<"b", SQ, "a", "b", SQ>>,
     <<"(", "1", "+", "2", "j", ")">>, <<EAcute, DQ>>}

Other(s) == [k |-> "other", v |-> s]

\* such an object alone, in arrays and in objects
OtherValue(v) ==
    \E s \in OtherTexts :
        \/ v = Other(s)
        \/ v = ArrayOf(<<Other(s)>>)
        \/ v = ArrayOf(<<Int_(<<"1">>), Other(s)>>)
        \/ v = ArrayOf(<<ArrayOf(<<Other(s)>>)>>)
        \/ v = [k |-> "dict", v |-> << <<<<"a">>, Other(s)>> >>]
        \/ v = [k |-> "dict", v |-> << <<<<"a">>, ArrayOf(<<Other(s)>>)>> >>]

InitOther ==
    /\ OtherValue(original)
    /\ opts \in Options
    /\ text = <<>>
    /\ pos = 0
    /\ length = 0
    /\ result = NoValue
    /\ error = NoExc
    /\ pc = "dumps"
    /\ NoOperands

\* text = dumps(original, default=default, **opts); lhs is the object after
\* obj = _apply_default(obj, default)
DumpsDefault ==
    /\ pc = "dumps"
    /\ \E default \in Defaults :
          /\ lhs' = apply_default(original, default)
          /\ text' = dumps_default(original, opts, default)
    /\ pos' = 0
    /\ length' = Len(text')
    /\ pc' = "start"
    /\ UNCHANGED <<result, error, original, opts, rhs, ret>>

OtherNext == Dumps \/ DumpsDefault \/ ParseNext

SpecOther == InitOther /\ [][OtherNext]_vars

\* d is a whole string literal, and the string is s
LiteralOf(d, n, s) == d.ok /\ d.end = n /\ d.val = s

\* t is the text of a string literal, in any quote style, of the string s
IsStringLiteralOf(t, s) ==
    /\ Len(t) >= 2
    /\ t[1] \in {DQ, SQ, BT}
    /\ LiteralOf(Decode(t, 1, t[1], <<>>), Len(t), s)

\* C20: serialize never silently stringifies a value of an unknown type:
\* for a value that is none of the Value variants it does not return the
\* text of str(value) as a string literal.
C20_NoSilentStringification ==
    (pc # "dumps" /\ original.k = "other") => ~IsStringLiteralOf(text, original.v)

\* dumps of the set {1, 2} has returned the string literal "{1, 2}", and
\* parse has read it as a str
C20_SetWrittenAsString ==
    /\ Returned
    /\ original = Other(<<"{", "1", ",", " ", "2", "}">>)
    /\ text = <<DQ, "{", "1", ",", " ", "2", "}", DQ>>
    /\ result.k = "str"

(***************************************************************************)
(* Serializing NaN and the infinities                                      *)
(***************************************************************************)
\* float('nan'), float('inf'), float('-inf')
SpecialFloats == {FloatNaN, FloatInf(FALSE), FloatInf(TRUE)}

Float_(f) == [k |-> "float", v |-> f]

Null_ == [k |-> "null", v |-> 0]

\* the one-entry object {key: x}
Entry(key, x) == [k |-> "dict", v |-> << <<key, x>> >>]

\* the float x alone and in arrays and objects, with another float y
\* beside it
LossyValue(v) ==
    \E f, g \in SpecialFloats :
        \/ v = Float_(f)
        \/ v = ArrayOf(<<Float_(f), Float_(g)>>)
        \/ v = ArrayOf(<<Int_(<<"1">>), Float_(f)>>)
        \/ v = ArrayOf(<<ArrayOf(<<Float_(f)>>)>>)
        \/ v = Entry(<<"a">>, Float_(f))
        \/ v = Entry(<<"a">>, ArrayOf(<<Float_(f), Float_(g)>>))
        \/ v = ArrayOf(<<Entry(<<"a">>, Float_(f))>>)
        \/ v = Entry(<<"a">>, Entry(<<"b">>, Float_(f)))

InitLossy ==
    /\ LossyValue(original)
    /\ opts \in Options
    /\ text = <<>>
    /\ pos = 0
    /\ length = 0
    /\ result = NoValue
    /\ error = NoExc
    /\ pc = "dumps"
    /\ NoOperands

SpecLossy == InitLossy /\ [][RoundTripNext]_vars

\* x with Null in the place of every NaN and infinity
RECURSIVE Nullified(_)
Nullified(x) ==
    IF x.k = "float" THEN (IF x.v \in SpecialFloats THEN Null_ ELSE x)
    ELSE IF x.k = "list" THEN ArrayOf([i \in 1..Len(x.v) |-> Nullified(x.v[i])])
    ELSE IF x.k = "dict"
    THEN [k |-> "dict", v |-> [i \in 1..Len(x.v) |-> <<x.v[i][1], Nullified(x.v[i][2])>>]]
    ELSE x

\* C21: a float NaN, +Infinity or -Infinity, at top level or nested in any
\* container, is written as the text null, so that parsing the output gives
\* Null at that position.
C21_LossyFloats ==
    /\ ~Raised
    /\ (pc # "dumps" /\ original.k = "float") => text = <<"n", "u", "l", "l">>
    /\ Returned => PyEq(result, Nullified(original))

\* {a: [NaN, -Infinity]} has been written and read back as {a: [null, null]}
C21_NestedNaNReadAsNull ==
    /\ Returned
    /\ original = Entry(<<"a">>, ArrayOf(<<Float_(FloatNaN), Float_(FloatInf(TRUE))>>))
    /\ result.v[1][2].v = <<Null_, Null_>>

(***************************************************************************)
(* Python int arithmetic beyond 32 bits.  An int is its decimal text: the  *)
(* digits without leading zeros, "-" before them for a negative one.       *)
(***************************************************************************)
Digit(n) == Ascii[17 + n]

\* a local variable whose value e is computed before F is
Strict(e, F(_)) == CHOOSE r \in {F(v) : v \in {e}} : TRUE

Front(d) == IF d = <<>> THEN <<>> ELSE SubSeq(d, 1, Len(d) - 1)

LastVal(d) == IF d = <<>> THEN 0 ELSE DigitVal(d[Len(d)])

Canon(d) == IF StripLeadingZeros(d) = <<>> THEN <<"0">> ELSE StripLeadingZeros(d)

\* The arithmetic works on groups of four digits.
Base == 10 ^ 4

\* the groups of four digits of d, the first one shorter when need be
Limbs(d) ==
    [i \in 1..((Len(d) + 3) \div 4) |->
        StrToNat(SubSeq(d, Max(1, Len(d) - 4 * ((Len(d) + 3) \div 4 - i) - 3),
                        Len(d) - 4 * ((Len(d) + 3) \div 4 - i)), 10)]

\* the digits of the groups l
Digits(l) ==
    Canon([j \in 1..(4 * Len(l)) |-> Pad(l[(j + 3) \div 4], 4)[((j - 1) % 4) + 1]])

LastLimb(l) == IF l = <<>> THEN 0 ELSE l[Len(l)]

\* a + b + c
RECURSIVE AddCarry(_, _, _)
AddCarry(a, b, c) ==
    Strict(LastLimb(a) + LastLimb(b) + c, LAMBDA s :
        IF a = <<>> /\ b = <<>> THEN <<c>>
        ELSE Append(AddCarry(Front(a), Front(b), s \div Base), s % Base))

NatAdd(a, b) ==
    Strict(Limbs(a), LAMBDA x : Strict(Limbs(b), LAMBDA y : Digits(AddCarry(x, y, 0))))

\* a - b - c, for a >= b + c
RECURSIVE SubBorrow(_, _, _)
SubBorrow(a, b, c) ==
    Strict(LastLimb(a) - LastLimb(b) - c, LAMBDA s :
        IF a = <<>> THEN <<>>
        ELSE Append(SubBorrow(Front(a), Front(b), IF s < 0 THEN 1 ELSE 0),
                    (s + Base) % Base))

NatSub(a, b) ==
    Strict(Limbs(a), LAMBDA x : Strict(Limbs(b), LAMBDA y : Digits(SubBorrow(x, y, 0))))

\* a * k + c for k up to 2^16
RECURSIVE MulCarry(_, _, _)
MulCarry(a, k, c) ==
    Strict(LastLimb(a) * k + c, LAMBDA s :
        IF a = <<>> THEN <<c \div Base, c % Base>>
        ELSE Append(MulCarry(Front(a), k, s \div Base), s % Base))

NatMulSmall(a, k) == Strict(Limbs(a), LAMBDA x : Digits(MulCarry(x, k, 0)))

\* divmod(a, k) for k up to 2^17: long division from group i on
RECURSIVE DivLoop(_, _, _, _, _)
DivLoop(a, k, i, rem, q) ==
    IF i > Len(a) THEN [q |-> Digits(q), r |-> rem]
    ELSE Strict(rem * Base + a[i], LAMBDA s :
         Strict(Append(q, s \div k), LAMBDA qs : DivLoop(a, k, i + 1, s % k, qs)))

NatDivMod(a, k) == Strict(Limbs(a), LAMBDA x : DivLoop(x, k, 1, 0, <<>>))

\* divmod(a, 10^9)
NatDivModE9(a) ==
    [q |-> Canon(SubSeq(a, 1, Len(a) - 9)),
     r |-> StrToNat(SubSeq(a, Max(1, Len(a) - 8), Len(a)), 10)]

\* a * 10^9 + r for r < 10^9
NatTimesE9Plus(a, r) == Canon(a \o Pad(r, 9))

NatLess(a, b) ==
    \/ Len(a) < Len(b)
    \/ /\ Len(a) = Len(b)
       /\ \E i \in 1..Len(a) :
              /\ DigitVal(a[i]) < DigitVal(b[i])
              /\ \A j \in 1..(i - 1) : a[j] = b[j]

IntIsNeg(x) == Head(x) = "-"
IntAbs(x) == IF IntIsNeg(x) THEN Tail(x) ELSE x
IntSigned(neg, mag) == IF neg /\ mag # <<"0">> THEN <<"-">> \o mag ELSE mag
IntNeg(x) == IntSigned(~IntIsNeg(x), IntAbs(x))

\* x + y
IntAdd(x, y) ==
    IF IntIsNeg(x) = IntIsNeg(y) THEN IntSigned(IntIsNeg(x), NatAdd(IntAbs(x), IntAbs(y)))
    ELSE IF NatLess(IntAbs(x), IntAbs(y))
    THEN IntSigned(IntIsNeg(y), NatSub(IntAbs(y), IntAbs(x)))
    ELSE IntSigned(IntIsNeg(x), NatSub(IntAbs(x), IntAbs(y)))

\* x // k and x % k of Python, which round towards minus infinity, from
\* the quotient and remainder d of abs(x)
FloorOf(x, d, k) ==
    IF ~IntIsNeg(x) THEN d
    ELSE IF d.r = 0 THEN [q |-> IntNeg(d.q), r |-> 0]
    ELSE [q |-> IntNeg(NatAdd(d.q, <<"1">>)), r |-> k - d.r]

IntFloorDivMod(x, k) == FloorOf(x, NatDivMod(IntAbs(x), k), k)
IntFloorDivModE9(x) == FloorOf(x, NatDivModE9(IntAbs(x)), 1000000000)

\* an int of at most nine digits as a number
IntToNum(x) == IF IntIsNeg(x) THEN 0 - StrToNat(Tail(x), 10) ELSE StrToNat(x, 10)
NumToInt(n) == IF n < 0 THEN <<"-">> \o NatToStr(0 - n) ELSE NatToStr(n)

TwoTo53 == <<"9", "0", "0", "7", "1", "9", "9", "2", "5", "4", "7", "4", "0", "9", "9", "2">>

\* Python float arithmetic on the values m * 2^e with m an int below 2^53.
TwoTo52 == <<"4", "5", "0", "3", "5", "9", "9", "6", "2", "7", "3", "7", "0", "4", "9", "6">>

\* sixteen bits at a time where that many are to go, then four, then one
StepOf(n) == IF n >= 16 THEN 16 ELSE IF n >= 4 THEN 4 ELSE 1

\* the bits by which a exceeds 2^53, as far as StepOf looks
RECURSIVE ExcessBits(_, _)
ExcessBits(mag, e) ==
    IF e = 16 \/ NatLess(mag, NatMulSmall(TwoTo53, 2 ^ e)) THEN e ELSE ExcessBits(mag, e + 1)

\* a / 2^j for the least j that brings it below 2^53, rounded to the nearest
\* int, ties to even: half is the last bit shifted out, sticky tells whether
\* anything below it was not zero
RECURSIVE ShiftRound(_, _, _, _)
ShiftRound(a, e, half, sticky) ==
    IF ~NatLess(a, TwoTo53)
    THEN Strict(StepOf(ExcessBits(a, 1)), LAMBDA j :
         Strict(NatDivMod(a, 2 ^ j), LAMBDA d :
             ShiftRound(d.q, e + j, d.r >= 2 ^ (j - 1),
                        sticky \/ half \/ d.r % (2 ^ (j - 1)) # 0)))
    ELSE IF half /\ (sticky \/ LastVal(a) % 2 = 1)
    THEN [m |-> NatAdd(a, <<"1">>), e |-> e]
    ELSE [m |-> a, e |-> e]

\* n // 10^p
DropDigits(n, p) == Canon(SubSeq(n, 1, Len(n) - p))

\* the least k with n * 2^k // 10^p >= 2^52, for n > 0
RECURSIVE ScaleUp(_, _, _)
ScaleUp(n, p, k) ==
    IF ~NatLess(DropDigits(n, p), TwoTo52) THEN [n |-> n, k |-> k]
    ELSE Strict(CHOOSE j \in {16, 4, 1} :
                    /\ j = 1 \/ NatLess(DropDigits(NatMulSmall(n, 2 ^ j), p), TwoTo53)
                    /\ j = 16 \/ ~NatLess(DropDigits(NatMulSmall(n, 2 ^ (4 * j)), p), TwoTo53),
                LAMBDA j :
         Strict(NatMulSmall(n, 2 ^ j), LAMBDA scaled : ScaleUp(scaled, p, k + j)))

\* the last p digits of n against half of 10^p: -1 below, 0 equal, 1 above
AgainstHalf(n, p) ==
    Let(SubSeq(Repeat("0", p) \o n, Len(n) + 1, Len(n) + p), LAMBDA r :
        IF p = 0 THEN -1
        ELSE IF DigitVal(r[1]) < 5 THEN -1
        ELSE IF r = <<"5">> \o Repeat("0", p - 1) THEN 0
        ELSE 1)

\* float(text) for digits n with p of them after the point: the double
\* nearest to n / 10^p
PyFloatOf(n, p) ==
    IF Canon(n) = <<"0">> THEN [m |-> <<"0">>, e |-> 0]
    ELSE Strict(ScaleUp(n, p, 0), LAMBDA s :
         Strict(DropDigits(s.n, p), LAMBDA q :
             IF ~NatLess(q, TwoTo53)
             THEN ShiftRound(q, 0, FALSE,
                             p > 0 /\ SubSeq(n, Len(n) - p + 1, Len(n)) # Repeat("0", p))
             ELSE ShiftRound(q, 0 - s.k, AgainstHalf(s.n, p) >= 0, AgainstHalf(s.n, p) = 1)))

\* x * 1_000_000_000
FloatTimesE9(x) ==
    IF x.m = <<"0">> THEN x
    ELSE Strict(NatTimesE9Plus(x.m, 0), LAMBDA product : ShiftRound(product, x.e, FALSE, FALSE))

\* int(x) for x >= 0
RECURSIVE IntOfFloat(_, _)
IntOfFloat(m, e) ==
    IF m = <<"0">> \/ e = 0 THEN m
    ELSE IF e > 0
    THEN Strict(NatMulSmall(m, 2 ^ StepOf(e)), LAMBDA v : IntOfFloat(v, e - StepOf(e)))
    ELSE Strict(NatDivMod(m, 2 ^ StepOf(0 - e)).q, LAMBDA v : IntOfFloat(v, e + StepOf(0 - e)))

(***************************************************************************)
(* kjson/types.py: Instant                                                 *)
(***************************************************************************)
Instant_(n) == [k |-> "Instant", v |-> Int_(n)]

IntLess(x, y) ==
    IF IntIsNeg(x) /\ ~IntIsNeg(y) THEN TRUE
    ELSE IF ~IntIsNeg(x) /\ IntIsNeg(y) THEN FALSE
    ELSE IF IntIsNeg(x) THEN NatLess(IntAbs(y), IntAbs(x))
    ELSE NatLess(x, y)

IntBetween(lo, x, hi) == ~IntLess(x, lo) /\ ~IntLess(hi, x)

\* the seconds since the epoch that datetime.fromtimestamp(_, tz=utc) takes:
\* the years 1 to 9999; gmtime() fails outside the years of a C int; the
\* conversion to time_t fails outside 64 bits
MinTimestamp == <<"-", "6", "2", "1", "3", "5", "5", "9", "6", "8", "0", "0">>
MaxTimestamp == <<"2", "5", "3", "4", "0", "2", "3", "0", "0", "7", "9", "9">>
MinGmtime ==
    <<"-", "6", "7", "7", "6", "8", "0", "4", "0", "6", "0", "9", "7", "4", "0", "8", "0", "0">>
MaxGmtime ==
    <<"6", "7", "7", "6", "8", "0", "3", "6", "1", "9", "1", "6", "7", "6", "7", "9", "9">>
MinTimeT ==
    <<"-", "9", "2", "2", "3", "3", "7", "2", "0", "3", "6", "8", "5", "4", "7", "7", "5",
      "8", "0", "8">>
MaxTimeT ==
    <<"9", "2", "2", "3", "3", "7", "2", "0", "3", "6", "8", "5", "4", "7", "7", "5",
      "8", "0", "7">>

\* strftime("%Y-%m-%dT%H:%M:%S") of the date ymd and the second sod of the
\* day; glibc writes %Y without padding
strftime(ymd, sod) ==
    NatToStr(ymd[1]) \o <<"-">> \o Pad(ymd[2], 2) \o <<"-">> \o Pad(ymd[3], 2)
    \o <<"T">> \o Pad(sod \div 3600, 2) \o <<":">> \o Pad((sod % 3600) \div 60, 2)
    \o <<":">> \o Pad(sod % 60, 2)

\* datetime.fromtimestamp(seconds, tz=timezone.utc).strftime(...)
BaseIso(seconds) ==
    Let(IntFloorDivMod(seconds, 86400), LAMBDA d :
        IF ~IntBetween(MinTimeT, seconds, MaxTimeT)
        THEN Raise(0, PyError("OverflowError", "timestamp out of range for platform time_t"))
        ELSE IF ~IntBetween(MinGmtime, seconds, MaxGmtime)
        THEN Raise(0, PyError("OSError", "Value too large for defined data type"))
        ELSE IF ~IntBetween(MinTimestamp, seconds, MaxTimestamp)
        THEN Raise(0, PyError("ValueError", "year is out of range"))
        ELSE Ok(0, strftime(civil_from_days(IntToNum(d.q)), d.r)))

\* Instant.to_iso8601
Instant_to_iso8601(i) ==
    Let(IntFloorDivModE9(i.v.v), LAMBDA n :
    Let(BaseIso(n.q), LAMBDA base_iso :
        IF ~base_iso.ok THEN base_iso
        ELSE IF n.r = 0 THEN Ok(0, base_iso.val \o <<"Z">>)
        ELSE Ok(0, base_iso.val \o <<".">> \o rstrip(Pad(n.r, 9), {"0"}) \o <<"Z">>)))

\* datetime.isoformat() of a datetime in UTC, with '+00:00' replaced by 'Z'
isoformat_zulu(f) ==
    Pad(f[1], 4) \o <<"-">> \o Pad(f[2], 2) \o <<"-">> \o Pad(f[3], 2)
    \o <<"T">> \o Pad(f[4], 2) \o <<":">> \o Pad(f[5], 2) \o <<":">> \o Pad(f[6], 2)
    \o (IF f[7] # 0 THEN <<".">> \o Pad(f[7], 6) ELSE <<>>) \o <<"Z">>

\* the first branch of Instant.from_iso8601: a text with an offset is
\* brought to Zulu time by datetime
ZuluString(iso_string) ==
    Let(fromisoformat(iso_string), LAMBDA f :
    Let(IF f.tzinfo.some THEN astimezone_utc(f.fields, f.tzinfo) ELSE f.fields, LAMBDA utc :
        IF Count(iso_string, "+") > 0 \/ Count(iso_string, "-") > 2
        THEN IF ~f.ok THEN Raise(0, PyError("ValueError", "Invalid isoformat string"))
             ELSE IF utc[1] < 1 \/ utc[1] > 9999
             THEN Raise(0, PyError("OverflowError", "date value out of range"))
             ELSE Ok(0, isoformat_zulu(utc))
        ELSE IF iso_string = <<>> \/ iso_string[Len(iso_string)] # "Z"
        THEN Ok(0, iso_string \o <<"Z">>)
        ELSE Ok(0, iso_string)))

\* the regular expression of Instant.from_iso8601:
\* ^(\d{4})-(\d{2})-(\d{2})T(\d{2}):(\d{2}):(\d{2})(?:\.(\d+))?Z$
\* on the texts of the model, whose only digits are the ASCII ones
ZuluMatch(z) ==
    Let(SpanEnd(z, 20, AsciiDigits), LAMBDA e :
    Let([ok |-> FALSE, groups |-> <<>>, fraction_str |-> <<>>], LAMBDA no :
    Let(<<parse_digits(z, 0, 4), parse_digits(z, 5, 2), parse_digits(z, 8, 2),
          parse_digits(z, 11, 2), parse_digits(z, 14, 2), parse_digits(z, 17, 2)>>, LAMBDA g :
        IF \E j \in 1..6 : g[j] < 0 THEN no
        ELSE IF ~(current_char(z, 4) = "-" /\ current_char(z, 7) = "-"
                  /\ current_char(z, 10) = "T" /\ current_char(z, 13) = ":"
                  /\ current_char(z, 16) = ":")
        THEN no
        ELSE IF current_char(z, 19) = "Z" /\ Len(z) = 20
        THEN [ok |-> TRUE, groups |-> g, fraction_str |-> <<>>]
        ELSE IF current_char(z, 19) = "." /\ e > 20 /\ current_char(z, e) = "Z"
                /\ Len(z) = e + 1
        THEN [ok |-> TRUE, groups |-> g, fraction_str |-> Slice(z, 20, e)]
        ELSE no)))

\* datetime(year, month, day, hour, minute, second, tzinfo=timezone.utc)
datetime_valid(g) ==
    /\ g[1] >= 1 /\ g[1] <= 9999
    /\ g[2] >= 1 /\ g[2] <= 12
    /\ g[3] >= 1 /\ g[3] <= DaysInMonth(g[1], g[2])
    /\ g[4] <= 23 /\ g[5] <= 59 /\ g[6] <= 59

\* dt.timestamp() of a datetime in UTC, a whole number of seconds
timestamp(g) ==
    IntAdd(Let(days_from_civil(g[1], g[2], g[3]), LAMBDA days :
               IntSigned(days < 0, NatMulSmall(NatToStr(IF days < 0 THEN 0 - days ELSE days),
                                               86400))),
           NatToStr(g[4] * 3600 + g[5] * 60 + g[6]))

\* int(dt.timestamp() * 1_000_000_000): the timestamp is a float
TimestampNanos(g) ==
    Strict(timestamp(g), LAMBDA t :
    Strict(FloatTimesE9(PyFloatOf(IntAbs(t), 0)), LAMBDA x :
        IntSigned(IntIsNeg(t), IntOfFloat(x.m, x.e))))

\* fraction_str.ljust(9, '0')[:9]
PaddedFraction(fraction_str) ==
    SubSeq(fraction_str \o Repeat("0", 9 - Len(fraction_str)), 1, 9)

\* Instant.from_iso8601
Instant_from_iso8601(iso_string) ==
    Let(ZuluString(iso_string), LAMBDA zulu_string :
    Let(ZuluMatch(zulu_string.val), LAMBDA match :
        IF ~zulu_string.ok THEN zulu_string
        ELSE IF ~match.ok
        THEN Raise(0, PyError("ValueError", "Invalid ISO date string format"))
        ELSE IF ~datetime_valid(match.groups)
        THEN Raise(0, PyError("ValueError", "out of range"))
        ELSE IF match.fraction_str # <<>>
        THEN Ok(0, Instant_(IntAdd(TimestampNanos(match.groups),
                                   Canon(PaddedFraction(match.fraction_str)))))
        ELSE Ok(0, Instant_(TimestampNanos(match.groups)))))

\* Instant.__eq__
Instant_eq(a, b) == b.k = "Instant" /\ a.v.v = b.v.v

(***************************************************************************)
(* Instant: to_iso8601 and from_iso8601 of the text it made                *)
(***************************************************************************)
\* Seconds since the epoch: the first seconds and days, a day of 2025, the
\* seconds around 2^62 nanoseconds (the year 2116), a year before 1000 when
\* negated, the last second of the year 9999 and the one after it.
InstantSeconds ==
    {<<"0">>,
     <<"1">>,
     <<"5", "9">>,
     <<"8", "6", "3", "9", "9">>,
     <<"8", "6", "4", "0", "0">>,
     <<"1", "7", "3", "6", "5", "1", "0", "4", "0", "0">>,
     <<"4", "6", "1", "1", "6", "8", "6", "0", "1", "8">>,
     <<"4", "6", "1", "1", "6", "8", "6", "0", "1", "9">>,
     <<"4", "6", "1", "1", "6", "8", "6", "0", "2", "0">>,
     <<"4", "6", "1", "1", "6", "8", "6", "0", "2", "1">>,
     <<"3", "0", "6", "1", "0", "2", "2", "4", "0", "0", "0">>,
     <<"2", "5", "3", "4", "0", "2", "3", "0", "0", "7", "9", "9">>,
     <<"2", "5", "3", "4", "0", "2", "3", "0", "0", "8", "0", "0">>}

\* nanoseconds within the second
InstantFractions == {0, 1, 120000000, 999999999}

\* the Instants given: seconds * 10^9 + fraction, and their negatives
InstantValues ==
    {Instant_(IntSigned(neg, NatTimesE9Plus(s, f))) :
        neg \in BOOLEAN, s \in InstantSeconds, f \in InstantFractions}

InitInstant ==
    /\ original \in InstantValues
    /\ text = <<>>
    /\ pos = 0
    /\ length = 0
    /\ result = NoValue
    /\ error = NoExc
    /\ pc = "new"
    /\ opts = DefaultOptions
    /\ NoOperands

\* text = original.to_iso8601()
ToIso8601 ==
    /\ pc = "new"
    /\ text' = Instant_to_iso8601(original).val
    /\ length' = IF Instant_to_iso8601(original).ok THEN Len(text') ELSE 0
    /\ error' = Instant_to_iso8601(original).exc
    /\ pc' = IF Instant_to_iso8601(original).ok THEN "text" ELSE "raised"
    /\ UNCHANGED <<pos, result, original, opts, lhs, rhs, ret>>

\* result = Instant.from_iso8601(text)
FromIso8601 ==
    /\ pc = "text"
    /\ result' = Instant_from_iso8601(text).val
    /\ error' = Instant_from_iso8601(text).exc
    /\ pc' = IF Instant_from_iso8601(text).ok THEN "done" ELSE "raised"
    /\ UNCHANGED <<text, pos, length, original, opts, lhs, rhs, ret>>

InstantNext == ToIso8601 \/ FromIso8601

SpecInstant == InitInstant /\ [][InstantNext]_vars

\* the digits between the '.' and the final 'Z' of a rendered Instant, none
\* when there is no '.'
FractionDigits(t) ==
    IF Count(t, ".") = 0 THEN <<>>
    ELSE SubSeq(t, CHOOSE i \in 1..Len(t) : t[i] = ".", Len(t))

\* t ends in 'Z' and has no fraction when the nanoseconds n are whole
\* seconds, else '.' and the nine digits of the sub-second part without
\* their trailing zeros
FractionRendered(t, n) ==
    /\ t # <<>> /\ t[Len(t)] = "Z"
    /\ IF IntFloorDivModE9(n).r = 0 THEN Count(t, ".") = 0
       ELSE /\ Count(t, ".") = 1
            /\ FractionDigits(t) = <<".">> \o StripTrailingZeros(Pad(IntFloorDivModE9(n).r, 9))
                                    \o <<"Z">>

\* C22: for every nanosecond count, negative ones included, to_iso8601
\* renders the UTC second followed by 'Z', without a fraction when the
\* sub-second part is zero and else with '.' and the nine-digit sub-second
\* part without trailing zeros, and Instant.from_iso8601 of that text is an
\* Instant equal to the original: neither call raises.
C22_InstantRoundTrip ==
    /\ pc # "raised"
    /\ pc \in {"text", "done"} => FractionRendered(text, original.v.v)
    /\ pc = "done" => Instant_eq(original, result)

\* Instant(4611686019000000000), 2116-02-20T23:53:39Z, is read back 512
\* nanoseconds later
C22_ReadBackLater ==
    /\ pc = "done"
    /\ original = Instant_(<<"4", "6", "1", "1", "6", "8", "6", "0", "1", "9", "0", "0", "0", "0", "0", "0", "0", "0", "0">>)
    /\ text = <<"2", "1", "1", "6", "-", "0", "2", "-", "2", "0", "T", "2", "3", ":", "5", "3", ":", "3", "9", "Z">>
    /\ result = Instant_(<<"4", "6", "1", "1", "6", "8", "6", "0", "1", "9", "0", "0", "0", "0", "0", "0", "5", "1", "2">>)

(***************************************************************************)
(* kjson/types.py: Duration                                                *)
(***************************************************************************)
Duration_(n) == [k |-> "Duration", v |-> Int_(n)]

\* divmod(a, k * 1_000_000_000) for a small k
NatDivModTimesE9(a, k) ==
    [q |-> NatDivMod(NatDivModE9(a).q, k).q,
     r |-> NatTimesE9Plus(NatToStr(NatDivMod(NatDivModE9(a).q, k).r), NatDivModE9(a).r)]

\* the seconds of Duration.to_iso8601: f'{seconds}S' or
\* f'{seconds}.{fractional_str}S'
DurationSeconds(remaining) ==
    IF remaining = <<"0">> THEN <<>>
    ELSE IF NatDivModE9(remaining).r = 0 THEN NatDivModE9(remaining).q \o <<"S">>
    ELSE NatDivModE9(remaining).q \o <<".">>
         \o rstrip(Pad(NatDivModE9(remaining).r, 9), {"0"}) \o <<"S">>

\* the minutes and what follows them
DurationMinutes(remaining) ==
    IF NatDivModTimesE9(remaining, 60).q # <<"0">>
    THEN NatDivModTimesE9(remaining, 60).q \o <<"M">>
         \o DurationSeconds(NatDivModTimesE9(remaining, 60).r)
    ELSE DurationSeconds(remaining)

\* the hours and what follows them
DurationHours(remaining) ==
    IF NatDivModTimesE9(remaining, 3600).q # <<"0">>
    THEN NatDivModTimesE9(remaining, 3600).q \o <<"H">>
         \o DurationMinutes(NatDivModTimesE9(remaining, 3600).r)
    ELSE DurationMinutes(remaining)

\* the 'T' that is always written, even with nothing after it
DurationTimeAlwaysT(remaining) == <<"T">> \o DurationHours(remaining)

\* 'T' and the time components, when something remains after the days
DurationTime(remaining) ==
    IF remaining # <<"0">> THEN <<"T">> \o DurationHours(remaining) ELSE <<>>

\* the days and what follows them
DurationDays(remaining) ==
    IF NatDivModTimesE9(remaining, 86400).q # <<"0">>
    THEN <<"P">> \o NatDivModTimesE9(remaining, 86400).q \o <<"D">>
         \o DurationTime(NatDivModTimesE9(remaining, 86400).r)
    ELSE <<"P">> \o DurationTime(remaining)

\* Duration.to_iso8601
Duration_to_iso8601(d) ==
    IF d.v.v = <<"0">> THEN <<"P", "T", "0", "S">>
    ELSE IF IntIsNeg(d.v.v) THEN <<"-">> \o DurationDays(IntAbs(d.v.v))
    ELSE DurationDays(IntAbs(d.v.v))

\* (\d+) followed by the letter c at position p of t: the digits and the
\* position after the letter, or no digits and p
Component(t, p, c) ==
    IF SpanEnd(t, p, AsciiDigits) > p /\ current_char(t, SpanEnd(t, p, AsciiDigits)) = c
    THEN [digits |-> Slice(t, p, SpanEnd(t, p, AsciiDigits)),
          pos |-> SpanEnd(t, p, AsciiDigits) + 1]
    ELSE [digits |-> <<>>, pos |-> p]

\* (\d+(?:\.\d+)?)S at position p of t
SecondsComponent(t, p) ==
    Let(SpanEnd(t, p, AsciiDigits), LAMBDA e :
    Let(SpanEnd(t, e + 1, AsciiDigits), LAMBDA f :
        IF e > p /\ current_char(t, e) = "S"
        THEN [digits |-> Slice(t, p, e), pos |-> e + 1]
        ELSE IF e > p /\ current_char(t, e) = "." /\ f > e + 1 /\ current_char(t, f) = "S"
        THEN [digits |-> Slice(t, p, f), pos |-> f + 1]
        ELSE [digits |-> <<>>, pos |-> p]))

\* '$' of re: the end of the text, or the line feed that ends the text
AtEnd(t, p) == p = Len(t) \/ (p = Len(t) - 1 /\ t[Len(t)] = NL)

\* the regular expression of Duration.from_iso8601:
\* ^P(?:(\d+)D)?(?:T(?:(\d+)H)?(?:(\d+)M)?(?:(\d+(?:\.\d+)?)S)?)?$
\* on the texts of the model, whose only digits are the ASCII ones
DurationMatch(t) ==
    Let(Component(t, 1, "D"), LAMBDA days :
    Let(Component(t, days.pos + 1, "H"), LAMBDA hours :
    Let(Component(t, hours.pos, "M"), LAMBDA minutes :
    Let(SecondsComponent(t, minutes.pos), LAMBDA seconds :
        IF current_char(t, 0) # "P" THEN [ok |-> FALSE, groups |-> <<>>]
        ELSE IF AtEnd(t, days.pos)
        THEN [ok |-> TRUE, groups |-> <<days.digits, <<>>, <<>>, <<>> >>]
        ELSE IF current_char(t, days.pos) = "T" /\ AtEnd(t, seconds.pos)
        THEN [ok |-> TRUE,
              groups |-> <<days.digits, hours.digits, minutes.digits, seconds.digits>>]
        ELSE [ok |-> FALSE, groups |-> <<>>]))))

\* the place of the '.' in seconds, past the end when there is none
DotAt(seconds) ==
    CHOOSE i \in 1..(Len(seconds) + 1) : i = Len(seconds) + 1 \/ seconds[i] = "."

\* float(seconds)
SecondsFloat(seconds) ==
    PyFloatOf(Canon(SubSeq(seconds, 1, DotAt(seconds) - 1)
                    \o SubSeq(seconds, DotAt(seconds) + 1, Len(seconds))),
              Max(0, Len(seconds) - DotAt(seconds)))

\* int(float(seconds) * 1_000_000_000)
SecondsNanos(seconds) ==
    Strict(SecondsFloat(seconds), LAMBDA sec :
    Strict(FloatTimesE9(sec), LAMBDA x : IntOfFloat(x.m, x.e)))

\* int(digits) * k * 1_000_000_000, nothing for a group that did not match
GroupNanos(digits, k) ==
    IF digits = <<>> THEN <<"0">>
    ELSE NatTimesE9Plus(NatMulSmall(Canon(digits), k), 0)

\* Duration.from_iso8601
Duration_from_iso8601(duration_string) ==
    Let(DurationMatch(duration_string), LAMBDA match :
        IF ~match.ok THEN Raise(0, PyError("ValueError", "Invalid ISO duration format"))
        ELSE Ok(0, Duration_(NatAdd(NatAdd(GroupNanos(match.groups[1], 86400),
                                           GroupNanos(match.groups[2], 3600)),
                                    NatAdd(GroupNanos(match.groups[3], 60),
                                           IF match.groups[4] = <<>> THEN <<"0">>
                                           ELSE SecondsNanos(match.groups[4]))))))

\* Duration.__eq__
Duration_eq(a, b) == b.k = "Duration" /\ a.v.v = b.v.v

(***************************************************************************)
(* Duration: to_iso8601 and from_iso8601 of the text it made               *)
(***************************************************************************)
DurationDayCounts == {0, 1, 400}
DurationHourCounts == {0, 1, 23}
DurationMinuteCounts == {0, 59}
DurationSecondCounts == {0, 1, 59}
DurationFractions == {0, 15, 500000000, 999999999}

\* the Durations given: days, hours, minutes, seconds and nanoseconds, and
\* their negatives
DurationValues ==
    {Duration_(IntSigned(neg, NatTimesE9Plus(NatToStr(((d * 24 + h) * 60 + m) * 60 + s), f))) :
        neg \in BOOLEAN, d \in DurationDayCounts, h \in DurationHourCounts,
        m \in DurationMinuteCounts, s \in DurationSecondCounts, f \in DurationFractions}

InitDuration ==
    /\ original \in DurationValues
    /\ text = <<>>
    /\ pos = 0
    /\ length = 0
    /\ result = NoValue
    /\ error = NoExc
    /\ pc = "new"
    /\ opts = DefaultOptions
    /\ NoOperands

\* text = original.to_iso8601()
DurationToIso8601 ==
    /\ pc = "new"
    /\ text' = Duration_to_iso8601(original)
    /\ length' = Len(text')
    /\ pc' = "text"
    /\ UNCHANGED <<pos, result, error, original, opts, lhs, rhs, ret>>

\* result = Duration.from_iso8601(text)
DurationFromIso8601 ==
    /\ pc = "text"
    /\ result' = Duration_from_iso8601(text).val
    /\ error' = Duration_from_iso8601(text).exc
    /\ pc' = IF Duration_from_iso8601(text).ok THEN "done" ELSE "raised"
    /\ UNCHANGED <<text, pos, length, original, opts, lhs, rhs, ret>>

DurationNext == DurationToIso8601 \/ DurationFromIso8601

SpecDuration == InitDuration /\ [][DurationNext]_vars

\* the text without its sign
Unsigned(t) == IF t # <<>> /\ t[1] = "-" THEN Tail(t) ELSE t

\* the whole seconds and the digits after the point of a seconds component
WholeSeconds(sec) == SubSeq(sec, 1, DotAt(sec) - 1)
AfterPoint(sec) == SubSeq(sec, DotAt(sec) + 1, Len(sec))

\* a component is written as a number without leading zeros that is not
\* zero and is below limit (no limit when limit is 0)
ComponentOk(digits, limit) ==
    digits # <<>> =>
        /\ Canon(digits) = digits
        /\ digits # <<"0">>
        /\ limit > 0 => (Len(digits) <= 2 /\ StrToNat(digits, 10) < limit)

\* the seconds: below 60, at most nine digits after the point and no zero
\* at their end, and not zero altogether
SecondsOk(sec) ==
    sec # <<>> =>
        /\ Canon(WholeSeconds(sec)) = WholeSeconds(sec)
        /\ Len(WholeSeconds(sec)) <= 2 /\ StrToNat(WholeSeconds(sec), 10) < 60
        /\ Len(AfterPoint(sec)) <= 9
        /\ Count(sec, ".") = 1 => (AfterPoint(sec) # <<>> /\ sec[Len(sec)] # "0")
        /\ WholeSeconds(sec) # <<"0">> \/ AfterPoint(sec) # <<>>

\* the nanoseconds the components stand for
ComponentNanos(g) ==
    NatAdd(NatAdd(GroupNanos(g[1], 86400), GroupNanos(g[2], 3600)),
           NatAdd(GroupNanos(g[3], 60),
                  IF g[4] = <<>> THEN <<"0">>
                  ELSE NatTimesE9Plus(WholeSeconds(g[4]),
                                      StrToNat(PaddedFraction(AfterPoint(g[4])), 10))))

\* t is the rendering the claim describes of the nanosecond count n
RendersDuration(t, n) ==
    IF n = <<"0">> THEN t = <<"P", "T", "0", "S">>
    ELSE /\ (t[1] = "-") = IntIsNeg(n)
         /\ DurationMatch(Unsigned(t)).ok
         /\ Let(DurationMatch(Unsigned(t)).groups, LAMBDA g :
                /\ ComponentOk(g[1], 0) /\ ComponentOk(g[2], 24) /\ ComponentOk(g[3], 60)
                /\ SecondsOk(g[4])
                /\ (Count(t, "T") = 1) = (g[2] # <<>> \/ g[3] # <<>> \/ g[4] # <<>>)
                /\ ComponentNanos(g) = IntAbs(n))

\* C23: for every nanosecond count n, to_iso8601 writes days, hours below
\* 24, minutes below 60 and seconds below 60 with their fractional
\* nanoseconds, which sum exactly to |n|; it leaves out the components that
\* are zero, writes 'T' only when a time component follows, writes '-' in
\* front exactly when n < 0, and writes PT0S for zero.
C23_DurationRendering ==
    pc # "new" => RendersDuration(text, original.v.v)

\* minus one day, one hour, 59 minutes and a second and a half
C23_NegativeWithEveryComponent ==
    /\ pc = "text"
    /\ original = Duration_(<<"-", "9", "3", "5", "4", "1", "5", "0", "0", "0", "0", "0", "0", "0", "0">>)
    /\ text = <<"-", "P", "1", "D", "T", "1", "H", "5", "9", "M", "1", ".", "5", "S">>

\* C29: for every Duration d of a whole number of nanoseconds, positive,
\* zero or negative, Duration.from_iso8601(d.to_iso8601()) returns, and
\* returns a Duration equal to d.
C29_DurationRoundTrip ==
    /\ pc # "raised"
    /\ pc = "done" => Duration_eq(original, result)

\* Duration(15) is written PT0.000000015S and read back as Duration(14)
C29_NanosecondLost ==
    /\ pc = "done"
    /\ original = Duration_(<<"1", "5">>)
    /\ text = <<"P", "T", "0", ".", "0", "0", "0", "0", "0", "0", "0", "1", "5", "S">>
    /\ result = Duration_(<<"1", "4">>)

(***************************************************************************)
(* kjson/types.py: uuid_v7                                                 *)
(***************************************************************************)
HexChars == <<"0", "1", "2", "3", "4", "5", "6", "7", "8", "9", "a", "b", "c", "d", "e", "f">>

\* a byte as two hexadecimal digits
HexByte(b) == <<HexChars[(b \div 16) + 1], HexChars[(b % 16) + 1]>>

\* now_ms >> (8 * n), for now_ms >= 0
RECURSIVE ShiftBytes(_, _)
ShiftBytes(now_ms, n) ==
    IF n = 0 THEN now_ms
    ELSE Strict(NatDivMod(now_ms, 256).q, LAMBDA rest : ShiftBytes(rest, n - 1))

\* uuid_bytes[0..5], least significant byte first
TimestampBytesReversed(now_ms) ==
    [i \in 1..6 |-> NatDivMod(ShiftBytes(now_ms, i - 1), 256).r]

\* uuid_bytes[0..5]: uuid_bytes[i] = (now_ms >> (40 - 8 * i)) & 0xff
TimestampBytes(now_ms) ==
    [i \in 1..6 |-> NatDivMod(ShiftBytes(now_ms, 6 - i), 256).r]

\* uuid_v7 when the clock reads now_ms milliseconds and
\* secrets.token_bytes(10) returns random_bytes
uuid_v7(now_ms, random_bytes) ==
    Let(TimestampBytes(now_ms)
        \o <<112 + (random_bytes[1] % 16), random_bytes[2],
             128 + (random_bytes[3] % 64)>>
        \o SubSeq(random_bytes, 4, 10), LAMBDA uuid_bytes :
        [k |-> "UUID",
         v |-> [i \in 1..32 |-> HexByte(uuid_bytes[(i + 1) \div 2])[2 - (i % 2)]]])

\* int(time.time() * 1000): the milliseconds the wall clock can read, from
\* the epoch to the last one that 48 bits hold
ClockReadings ==
    <<<<"0">>,
      <<"1">>,
      <<"2", "5", "5">>,
      <<"2", "5", "6">>,
      <<"6", "5", "5", "3", "5">>,
      <<"6", "5", "5", "3", "6">>,
      <<"4", "2", "9", "4", "9", "6", "7", "2", "9", "5">>,
      <<"4", "2", "9", "4", "9", "6", "7", "2", "9", "6">>,
      <<"1", "0", "9", "9", "5", "1", "1", "6", "2", "7", "7", "7", "5">>,
      <<"1", "0", "9", "9", "5", "1", "1", "6", "2", "7", "7", "7", "6">>,
      <<"1", "7", "3", "6", "5", "1", "0", "4", "0", "0", "0", "0", "0">>,
      <<"2", "8", "1", "4", "7", "4", "9", "7", "6", "7", "1", "0", "6", "5", "5">>>>

\* what secrets.token_bytes(10) returns: ten bytes, all bits clear, all set
\* or mixed
TokenBytes == {[i \in 1..10 |-> b] : b \in {0, 90, 165, 255}}

\* original is the index of the reading of the clock; ret holds the readings
\* the two calls took
InitUuid ==
    /\ original = [k |-> "clock", v |-> 1]
    /\ text = <<>>
    /\ pos = 0
    /\ length = 0
    /\ result = NoValue
    /\ error = NoExc
    /\ pc = "new"
    /\ opts = DefaultOptions
    /\ lhs = NoValue
    /\ rhs = NoValue
    /\ ret = [k |-> "list", v |-> <<>>]

\* the wall clock moves on
Tick ==
    /\ pc \in {"new", "one"}
    /\ \E i \in (original.v + 1)..Len(ClockReadings) : original' = [original EXCEPT !.v = i]
    /\ UNCHANGED <<text, pos, length, result, error, pc, opts, lhs, rhs, ret>>

\* lhs = uuid_v7()
GenerateFirst ==
    /\ pc = "new"
    /\ \E random_bytes \in TokenBytes : lhs' = uuid_v7(ClockReadings[original.v], random_bytes)
    /\ ret' = [ret EXCEPT !.v = Append(ret.v, ClockReadings[original.v])]
    /\ pc' = "one"
    /\ UNCHANGED <<text, pos, length, result, error, original, opts, rhs>>

\* rhs = uuid_v7()
GenerateSecond ==
    /\ pc = "one"
    /\ \E random_bytes \in TokenBytes : rhs' = uuid_v7(ClockReadings[original.v], random_bytes)
    /\ ret' = [ret EXCEPT !.v = Append(ret.v, ClockReadings[original.v])]
    /\ pc' = "two"
    /\ UNCHANGED <<text, pos, length, result, error, original, opts, lhs>>

UuidNext == Tick \/ GenerateFirst \/ GenerateSecond

SpecUuid == InitUuid /\ [][UuidNext]_vars

\* the number that hexadecimal digits stand for
RECURSIVE HexToNat(_)
HexToNat(h) ==
    IF h = <<>> THEN <<"0">>
    ELSE Strict(HexToNat(Front(h)), LAMBDA high :
             NatAdd(NatMulSmall(high, 16),
                    NatToStr(CHOOSE d \in 0..15 : HexChars[d + 1] = h[Len(h)])))

\* the first 48 bits of a UUID
TimestampBits(u) == HexToNat(SubSeq(u.v, 1, 12))

\* u is a version 7 UUID made at the clock reading now_ms
IsV7At(u, now_ms) ==
    /\ Len(u.v) = 32
    /\ TimestampBits(u) = now_ms
    /\ u.v[13] = "7"
    /\ u.v[17] \in {"8", "9", "a", "b"}

\* C24: the first 48 bits of the UUID uuid_v7 returns are the wall-clock
\* time in milliseconds at the call, its version nibble is 7 and its variant
\* bits are 10; of two UUIDs generated one after the other while the clock
\* does not go back, the second has timestamp bits greater than or equal to
\* those of the first.
C24_UuidV7 ==
    /\ pc \in {"one", "two"} => IsV7At(lhs, ret.v[1])
    /\ pc = "two" =>
           /\ IsV7At(rhs, ret.v[2])
           /\ ~NatLess(TimestampBits(rhs), TimestampBits(lhs))

\* a UUID of November 2004 and one of January 2025
C24_LaterUuidIsGreater ==
    /\ pc = "two"
    /\ ret.v = <<<<"1", "0", "9", "9", "5", "1", "1", "6", "2", "7", "7", "7", "6">>, <<"1", "7", "3", "6", "5", "1", "0", "4", "0", "0", "0", "0", "0">>>>
    /\ SubSeq(lhs.v, 1, 12) = <<"0", "1", "0", "0", "0", "0", "0", "0", "0", "0", "0", "0">>
    /\ SubSeq(rhs.v, 1, 12) = <<"0", "1", "9", "4", "5", "0", "1", "5", "e", "6", "0", "0">>

(***************************************************************************)
(* Two parse calls running at the same time in one process                 *)
(***************************************************************************)
\* parse_value reaches parse_unquoted_literal for the value that starts at p
\* (a value that is not an array or an object), parser.py lines 106-164
ReachesLiteral(t, p) ==
    /\ p < Len(t)
    /\ \/ t[p + 1] \in {"t", "f"}
       \/ /\ t[p + 1] = "-" \/ isdigit(t[p + 1])
          /\ is_uuid(t, p) \/ is_date(t, p)
       \/ /\ t[p + 1] \notin {"n", "t", "f", DQ, SQ, BT, "[", "{", "-"}
          /\ ~isdigit(t[p + 1])

\* parse_unquoted_literal gets as far as Date(literal): uuid.UUID(literal)
\* raised ValueError
ConstructsDate(t, p) ==
    /\ ReachesLiteral(t, p)
    /\ ~PyUUID(Slice(t, p, LiteralEnd(t, p))).ok

\* the action the warning filters of the process give a DeprecationWarning
\* raised in kjson.parser; the actions that raise nothing
FilterActions == {"ignore", "default", "always"}

\* the process before any call: kjson.parser has no __warningregistry__
NewProcess(action) == [action |-> action, registry |-> FALSE, recorded |-> FALSE]

\* Parser(text) of one call, with what the call has read of the registry and
\* the warnings it has written to stderr
NewCall(t) ==
    [text |-> t, pos |-> 0, length |-> Len(t), pc |-> "start",
     result |-> NoValue, error |-> NoExc, seen |-> FALSE, shown |-> 0]

ThreadTexts ==
    { <<"t", "r", "u", "e">>, <<"n", "u", "l", "l">>, <<"1">>,
      <<" ", "1", "2", " ">>, <<"1", " ", "2">>, <<DQ, "x", DQ>>,
      <<"a", "b", "c">>, TimestampZ, UuidText }

Threads == {1, 2}

\* the calls are held in lhs, one Parser each; the process in ret
InitThreads ==
    /\ \E t1 \in ThreadTexts, t2 \in ThreadTexts :
           lhs = <<NewCall(t1), NewCall(t2)>>
    /\ \E action \in FilterActions : ret = NewProcess(action)
    /\ text = <<>>
    /\ pos = 0
    /\ length = 0
    /\ result = NoValue
    /\ error = NoExc
    /\ pc = "threads"
    /\ original = NoValue
    /\ opts = DefaultOptions
    /\ rhs = NoValue

OnlyCalls == UNCHANGED <<text, pos, length, result, error, pc, original, opts, rhs>>

\* what parse_value leaves in the Parser of call i
CallOutcome(i, r) ==
    [lhs EXCEPT ![i].pos = r.pos, ![i].result = r.val, ![i].error = r.exc,
                ![i].pc = IF r.ok THEN "trailing" ELSE "raised"]

\* self.skip_whitespace() before the value
ThreadSkipLeading(i) ==
    /\ lhs[i].pc = "start"
    /\ lhs' = [lhs EXCEPT ![i].pos = skip_whitespace(lhs[i].text, lhs[i].pos),
                          ![i].pc = "value"]
    /\ UNCHANGED ret
    /\ OnlyCalls

\* self.parse_value() of a value that constructs no Date
ThreadParseValue(i) ==
    /\ lhs[i].pc = "value"
    /\ ~ConstructsDate(lhs[i].text, lhs[i].pos)
    /\ lhs' = CallOutcome(i, parse_value(lhs[i].text, lhs[i].pos))
    /\ UNCHANGED ret
    /\ OnlyCalls

\* self.parse_value() up to warnings.warn in Date.__init__: the registry of
\* kjson.parser is made if it is missing, and looked up
ThreadWarnLookup(i) ==
    /\ lhs[i].pc = "value"
    /\ ConstructsDate(lhs[i].text, lhs[i].pos)
    /\ lhs' = [lhs EXCEPT ![i].seen = ret.recorded, ![i].pc = "warn"]
    /\ ret' = [ret EXCEPT !.registry = TRUE]
    /\ OnlyCalls

\* the rest of warnings.warn, then the rest of self.parse_value(): "default"
\* records the warning in the registry and shows it, "always" shows it
ThreadWarnShow(i) ==
    /\ lhs[i].pc = "warn"
    /\ LET quiet == lhs[i].seen \/ ret.action = "ignore"
           r == parse_value(lhs[i].text, lhs[i].pos)
       IN  /\ lhs' = [CallOutcome(i, r) EXCEPT
                        ![i].shown = IF quiet THEN 0 ELSE 1]
           /\ ret' = [ret EXCEPT !.recorded =
                        @ \/ (~quiet /\ ret.action = "default")]
    /\ OnlyCalls

\* self.skip_whitespace() after the value
ThreadSkipTrailing(i) ==
    /\ lhs[i].pc = "trailing"
    /\ lhs' = [lhs EXCEPT ![i].pos = skip_whitespace(lhs[i].text, lhs[i].pos),
                          ![i].pc = "check"]
    /\ UNCHANGED ret
    /\ OnlyCalls

\* if self.pos < self.length: raise "Extra data"; return result
ThreadCheckEnd(i) ==
    /\ lhs[i].pc = "check"
    /\ lhs' = IF lhs[i].pos < lhs[i].length
              THEN [lhs EXCEPT ![i].error =
                        JSONDecodeError("Extra data after JSON value",
                                        lhs[i].text, lhs[i].pos),
                               ![i].result = NoValue,
                               ![i].pc = "raised"]
              ELSE [lhs EXCEPT ![i].pc = "done"]
    /\ UNCHANGED ret
    /\ OnlyCalls

ThreadsNext ==
    \E i \in Threads :
        \/ ThreadSkipLeading(i)
        \/ ThreadParseValue(i)
        \/ ThreadWarnLookup(i)
        \/ ThreadWarnShow(i)
        \/ ThreadSkipTrailing(i)
        \/ ThreadCheckEnd(i)

SpecThreads == InitThreads /\ [][ThreadsNext]_vars

\* the same call with no other call in the process: Parser.parse from
\* beginning to end
AloneValue(t) ==
    parse_value(t, skip_whitespace(t, 0))

AloneEnd(t) ==
    skip_whitespace(t, AloneValue(t).pos)

AloneResult(t) ==
    IF AloneValue(t).ok /\ AloneEnd(t) >= Len(t) THEN AloneValue(t).val
    ELSE NoValue

AloneError(t) ==
    IF ~AloneValue(t).ok THEN AloneValue(t).exc
    ELSE IF AloneEnd(t) < Len(t)
    THEN JSONDecodeError("Extra data after JSON value", t, AloneEnd(t))
    ELSE NoExc

AloneShown(t, action) ==
    IF ConstructsDate(t, skip_whitespace(t, 0)) /\ action # "ignore"
    THEN 1 ELSE 0

CallOver(i) == lhs[i].pc \in {"done", "raised"}

\* the value returned or the error raised is the one of the call alone
SameValueOrError(i) ==
    /\ lhs[i].result = AloneResult(lhs[i].text)
    /\ lhs[i].error = AloneError(lhs[i].text)

\* C25: once both calls are over, each has returned or raised what it does
\* alone and has written the warnings it writes alone, and the process
\* holds nothing that it did not hold before the calls.
C25_CallsIndependent ==
    (\A i \in Threads : CallOver(i)) =>
        /\ \A i \in Threads :
              /\ SameValueOrError(i)
              /\ lhs[i].shown = AloneShown(lhs[i].text, ret.action)
        /\ ret = NewProcess(ret.action)

\* both calls parsed a timestamp under the "default" action and only the
\* first one wrote the deprecation warning
C25_WarningOnlyInOneCall ==
    /\ \A i \in Threads : lhs[i].pc = "done" /\ lhs[i].text = TimestampZ
    /\ lhs[1].result.k = "Date"
    /\ ret.action = "default"
    /\ ret.recorded
    /\ lhs[1].shown = 1
    /\ lhs[2].shown = 0

\* values and errors do not depend on the other call
C25_ValuesIndependent ==
    \A i \in Threads : CallOver(i) => SameValueOrError(i)

(***************************************************************************)
(* kjson/api.py: JSONDecoder.decode with an object_hook                    *)
(***************************************************************************)
\* the hooks a caller passes: the one of tests/test_parser.py, and hooks
\* that return the dict itself, its length, a dict around it, the list of
\* its values
HookNames == {"same", "special", "len", "wrap", "values"}

HasSpecialType(items) ==
    \E i \in 1..Len(items) :
        /\ items[i][1] = <<"t", "y", "p", "e">>
        /\ items[i][2].k = "str"
        /\ items[i][2].v = <<"s", "p", "e", "c", "i", "a", "l">>

\* self.object_hook(obj)
object_hook(hook, obj) ==
    CASE hook = "same" -> obj
      [] hook = "special" ->
            IF HasSpecialType(obj.v)
            THEN Str_(<<"S", "P", "E", "C", "I", "A", "L">>)
            ELSE obj
      [] hook = "len" -> Int_(<<Digit(Len(obj.v))>>)
      [] hook = "wrap" -> Entry(<<"h", "o", "o", "k", "e", "d">>, obj)
      [] hook = "values" ->
            [k |-> "list", v |-> [i \in 1..Len(obj.v) |-> obj.v[i][2]]]

\* a test that takes no value for a list: lists are returned as they are
isinstance_list_never(obj) == FALSE

\* isinstance(obj, list)
isinstance_list(obj) == obj.k = "list"

RECURSIVE apply_object_hook(_, _, _, _), HookItems(_, _, _, _, _)

\* JSONDecoder._apply_object_hook(obj): the value it returns and the calls
\* of the hook so far, each with where its argument stood in the parsed
\* tree, its argument and what it returned
apply_object_hook(hook, obj, path, calls) ==
    IF obj.k = "dict"
    THEN Let(HookItems(hook, obj, path, calls, 1), LAMBDA r :
         Let(object_hook(hook, r.val), LAMBDA returned :
            [val |-> returned,
             calls |-> Append(r.calls, [path |-> path, arg |-> r.val,
                                        returned |-> returned])]))
    ELSE IF isinstance_list(obj)
    THEN HookItems(hook, obj, path, calls, 1)
    ELSE [val |-> obj, calls |-> calls]

\* the comprehension over obj.items() or over the items of a list, from
\* item i on
HookItems(hook, obj, path, calls, i) ==
    IF i > Len(obj.v) THEN [val |-> obj, calls |-> calls]
    ELSE Let(apply_object_hook(hook,
                 IF obj.k = "dict" THEN obj.v[i][2] ELSE obj.v[i],
                 Append(path, i), calls), LAMBDA r :
         HookItems(hook,
             [obj EXCEPT !.v[i] = IF obj.k = "dict"
                                  THEN <<obj.v[i][1], r.val>> ELSE r.val],
             path, r.calls, i + 1))

HookTexts ==
    { <<"{", DQ, "t", "y", "p", "e", DQ, ":", DQ, "s", "p", "e", "c", "i", "a", "l", DQ, ",", DQ, "d", "a", "t", "a", DQ, ":", "1", "2", "3", "}">>,
      <<"{", DQ, "o", "u", "t", "e", "r", DQ, ":", "{", DQ, "t", "y", "p", "e", DQ, ":", DQ, "s", "p", "e", "c", "i", "a", "l", DQ, "}", "}">>,
      <<"{", "a", ":", "{", "b", ":", "{", "}", "}", "}">>,
      <<"[", "{", "a", ":", "1", "}", ",", "{", "t", "y", "p", "e", ":", DQ, "s", "p", "e", "c", "i", "a", "l", DQ, "}", "]">>,
      <<"[", "1", ",", "[", "{", "}", "]", ",", DQ, "x", DQ, "]">>,
      <<"4", "2">>,
      <<"{", "a", ":", "[", "{", "b", ":", "{", "}", "}", ",", "2", "]", ",", "c", ":", "{", "}", "}">>,
      <<"{", "a", ":">>,
      <<"[", "]">>,
      <<"{", "a", ":", "{", "t", "y", "p", "e", ":", DQ, "s", "p", "e", "c", "i", "a", "l", DQ, "}", ",", "b", ":", "{", "c", ":", "{", "d", ":", "1", "}", "}", "}">> }

NoCalls == [k |-> "calls", v |-> <<>>]

\* loads(s, object_hook=hook): original is the hook, ret the calls made
InitHook ==
    /\ \E t \in HookTexts : ParserInit(t)
    /\ \E hook \in HookNames : original = [k |-> "hook", v |-> hook]
    /\ opts = DefaultOptions
    /\ lhs = NoValue
    /\ rhs = NoValue
    /\ ret = NoCalls

\* result = parse(s): lhs keeps the parsed tree
DecoderParse ==
    /\ pc = "start"
    /\ Let(parse_value(text, skip_whitespace(text, pos)), LAMBDA r :
       Let(skip_whitespace(text, r.pos), LAMBDA end :
           IF ~r.ok
           THEN /\ pos' = r.pos
                /\ error' = r.exc
                /\ pc' = "raised"
                /\ UNCHANGED <<result, lhs>>
           ELSE IF end < length
           THEN /\ pos' = end
                /\ error' = JSONDecodeError("Extra data after JSON value", text, end)
                /\ pc' = "raised"
                /\ UNCHANGED <<result, lhs>>
           ELSE /\ pos' = end
                /\ result' = r.val
                /\ lhs' = r.val
                /\ pc' = "parsed"
                /\ UNCHANGED error))
    /\ UNCHANGED <<text, length, original, opts, rhs, ret>>

\* if self.object_hook is not None: result = self._apply_object_hook(result)
ApplyObjectHook ==
    /\ pc = "parsed"
    /\ Let(apply_object_hook(original.v, result, <<>>, <<>>), LAMBDA r :
           /\ result' = r.val
           /\ ret' = [k |-> "calls", v |-> r.calls])
    /\ pc' = "done"
    /\ UNCHANGED <<text, pos, length, error, original, opts, lhs, rhs>>

HookNext == DecoderParse \/ ApplyObjectHook

SpecHook == InitHook /\ [][HookNext]_vars

\* the value at a path of item numbers
RECURSIVE ValueAt(_, _)
ValueAt(v, path) ==
    IF path = <<>> THEN v
    ELSE ValueAt(IF v.k = "dict" THEN v.v[Head(path)][2] ELSE v.v[Head(path)],
                 Tail(path))

\* the paths of a tree of dicts and lists
RECURSIVE Paths(_)
Paths(v) ==
    {<<>>} \cup
    (IF v.k \in {"dict", "list"}
     THEN UNION {{<<i>> \o p : p \in Paths(ValueAt(v, <<i>>))} : i \in 1..Len(v.v)}
     ELSE {})

ObjectPaths(v) == {p \in Paths(v) : ValueAt(v, p).k = "dict"}

IsUnder(p, q) == Len(q) < Len(p) /\ SubSeq(p, 1, Len(q)) = q

Below(p, q) == SubSeq(p, Len(q) + 1, Len(p))

CallAt(p) == CHOOSE c \in 1..Len(ret.v) : ret.v[c].path = p

\* the objects of the parsed tree under q with no object between
ChildObjects(q) ==
    {p \in ObjectPaths(lhs) :
        /\ IsUnder(p, q)
        /\ ~\E m \in ObjectPaths(lhs) : IsUnder(p, m) /\ IsUnder(m, q)}

\* the parts of the parsed tree under q that are in no object under q
Outside(q) ==
    {p \in Paths(lhs) :
        /\ IsUnder(p, q)
        /\ ValueAt(lhs, p).k # "dict"
        /\ ~\E m \in ObjectPaths(lhs) : IsUnder(p, m) /\ IsUnder(m, q)}

\* v is the parsed tree at q with each object under q replaced by what the
\* hook returned for it, and nothing else changed
ChildrenReplaced(v, q) ==
    /\ \A p \in ChildObjects(q) : ValueAt(v, Below(p, q)) = ret.v[CallAt(p)].returned
    /\ \A p \in Outside(q) :
          LET was == ValueAt(lhs, p)
              now == ValueAt(v, Below(p, q))
          IN  /\ now.k = was.k
              /\ IF was.k = "list" THEN Len(now.v) = Len(was.v) ELSE now = was
    /\ v.k = ValueAt(lhs, q).k
    /\ v.k \in {"dict", "list"} =>
          /\ Len(v.v) = Len(ValueAt(lhs, q).v)
          /\ v.k = "dict" =>
                \A i \in 1..Len(v.v) : v.v[i][1] = ValueAt(lhs, q).v[i][1]

\* C26: after decode, the hook has been called once for each object of the
\* parsed tree, for an object inside another one before the enclosing one;
\* each call received its object with the objects inside it replaced by what
\* the hook returned for them, objects inside arrays included; the result is
\* what the hook returned for the outermost object, or the parsed value
\* with its objects replaced when it is not an object; everything that is
\* not an object is as parsed.
C26_ObjectHook ==
    pc = "done" =>
        /\ Len(ret.v) = Cardinality(ObjectPaths(lhs))
        /\ {ret.v[c].path : c \in 1..Len(ret.v)} = ObjectPaths(lhs)
        /\ \A c, d \in 1..Len(ret.v) :
              IsUnder(ret.v[c].path, ret.v[d].path) => c < d
        /\ \A c \in 1..Len(ret.v) :
              /\ ChildrenReplaced(ret.v[c].arg, ret.v[c].path)
              /\ ret.v[c].returned = object_hook(original.v, ret.v[c].arg)
        /\ IF lhs.k = "dict"
           THEN result = ret.v[Len(ret.v)].returned
                /\ ret.v[Len(ret.v)].path = <<>>
           ELSE ChildrenReplaced(result, <<>>)

\* an object inside an array inside an object: the hook that returns the
\* length was called for the innermost object first and the outer call
\* received the replaced children
C26_InnerObjectInArrayFirst ==
    /\ pc = "done"
    /\ original.v = "len"
    /\ Len(ret.v) = 4
    /\ ret.v[1].path = <<1, 1, 1>>
    /\ ret.v[2].path = <<1, 1>>
    /\ ret.v[2].arg.v[1][2] = Int_(<<"0">>)
    /\ ret.v[4].path = <<>>
    /\ ret.v[4].arg.v[1][2].k = "list"
    /\ ret.v[4].arg.v[1][2].v[1] = Int_(<<"1">>)
    /\ result = Int_(<<"2">>)

(***************************************************************************)
(* The lookahead of parse_value on tokens that start with a digit          *)
(***************************************************************************)
\* number literals, tokens shaped as a UUID or a date that are neither, and
\* a UUID and two dates
LookaheadTokens ==
    { <<"1", "2", "3", "e", "-", "5">>,
      <<"1", ".", "2", "e", "-", "5">>,
      <<"1", "2", "3", "4", "5", "6", "7", "e", "-", "5">>,
      <<"1", "2", "3", "4", "5", "6", "7", "E", "-", "5">>,
      <<"1", "2", "3", "4", "5", "6", "7", "e", "-", "5", "m">>,
      <<"1", "2", "3", "4", "5", "6", "7", "8", "-", "1">>,
      <<"1", "2", "3", "4", "-", "5">>,
      <<"2", "0", "2", "5", "-", "0", "1", "-", "1", "0">>,
      <<"1", "e", "-", "5">>,
      <<"1", "2", "3", "4", "5", "6", "7", "8">>,
      <<"1", "2", "3", "4", "5", "6", "7", "E", "-", "1", "2", "3", "4", "5", "6", "7", "8", "9", "0", "1", "2", "3", "4", "5", "6", "7", "8", "9", "0", "1", "2", "3", "4">>,
      LongNumber, UuidText, TimestampZ }

Contexts == {"alone", "spaces", "array"}

InContext(token, context) ==
    CASE context = "alone" -> token
      [] context = "spaces" -> <<" ">> \o token \o <<" ">>
      [] context = "array" -> <<"[">> \o token \o <<"]">>

\* original keeps the token and where it was put
InitLookahead ==
    /\ \E token \in LookaheadTokens, context \in Contexts :
          /\ ParserInit(InContext(token, context))
          /\ original = [k |-> "token", v |-> token, context |-> context]
    /\ opts = DefaultOptions
    /\ NoOperands

SpecLookahead == InitLookahead /\ [][ParseNext]_vars

\* the token is classified as UUID-shaped or date-shaped
Shaped(token) == is_uuid(token, 0) \/ is_date(token, 0)

\* the token is a UUID or a date
Validates(token) == PyUUID(token).ok \/ Date_init(token).ok

\* the value parsed for the token
TokenValue == IF original.context = "array" THEN result.v[1] ELSE result

\* parse has returned what number parsing alone gives for the token
AsNumberAlone ==
    /\ Returned
    /\ parse_number(original.v, 0).ok
    /\ parse_number(original.v, 0).pos = Len(original.v)
    /\ TokenValue.k = parse_number(original.v, 0).val.k
    /\ TokenValue = parse_number(original.v, 0).val

\* C27: a token that is UUID-shaped or date-shaped and is no UUID and no date
\* is parsed as a number from its first character: parse returns the number
\* when the whole token is one and raises otherwise; and every well-formed
\* number literal gives what number parsing alone gives.
C27_LookaheadFallback ==
    (Returned \/ Raised) =>
        /\ (Shaped(original.v) /\ ~Validates(original.v)) =>
              IF parse_number(original.v, 0).ok
                 /\ parse_number(original.v, 0).pos = Len(original.v)
              THEN AsNumberAlone
              ELSE Raised
        /\ NumberShape(original.v).ok => AsNumberAlone

\* a well-formed number literal in an array has been returned as a UUID
C27_NumberInArrayIsUUID ==
    /\ Returned
    /\ original.context = "array"
    /\ NumberShape(original.v).ok
    /\ parse_number(original.v, 0).val.k = "float"
    /\ result.v[1].k = "UUID"

\* the tokens that fall back to number parsing
C27_FallsBack ==
    (Returned /\ Shaped(original.v) /\ ~Validates(original.v)) => AsNumberAlone

(***************************************************************************)
(* parse_object on object literals that repeat a key                       *)
(***************************************************************************)
MaxEntries == 3

DuplicateKeys == {"a", "b"}

\* the ways a key is written: bare, in the three quotes, with an escape
KeyForms == {"bare", "double", "single", "backtick", "escaped"}

KeyWrittenAs(key, form) ==
    CASE form = "bare" -> <<key>>
      [] form = "double" -> <<DQ, key, DQ>>
      [] form = "single" -> <<SQ, key, SQ>>
      [] form = "backtick" -> <<BT, key, BT>>
      [] form = "escaped" ->
            <<DQ, BSL, "u", "0", "0", "6", IF key = "a" THEN "1" ELSE "2", DQ>>

EntryLists ==
    UNION {[1..n -> [key : DuplicateKeys, form : KeyForms]] : n \in 1..MaxEntries}

\* the object literal of the entries: entry i has the value i
RECURSIVE EntriesText(_, _)
EntriesText(entries, i) ==
    IF i > Len(entries) THEN <<"}">>
    ELSE (IF i = 1 THEN <<"{">> ELSE <<",">>)
         \o KeyWrittenAs(entries[i].key, entries[i].form)
         \o <<":", Digit(i)>>
         \o EntriesText(entries, i + 1)

InitDuplicate ==
    /\ \E entries \in EntryLists :
          /\ ParserInit(EntriesText(entries, 1))
          /\ original = [k |-> "entries", v |-> entries]
    /\ opts = DefaultOptions
    /\ NoOperands

SpecDuplicate == InitDuplicate /\ [][ParseNext]_vars

\* the entries where a key occurs for the first and for the last time
FirstOccurrences ==
    {i \in 1..Len(original.v) :
        \A j \in 1..(i - 1) : original.v[j].key # original.v[i].key}

LastOccurrence(i) ==
    CHOOSE j \in 1..Len(original.v) :
        /\ original.v[j].key = original.v[i].key
        /\ \A n \in (j + 1)..Len(original.v) : original.v[n].key # original.v[i].key

\* the place of a first occurrence among the first occurrences
Rank(i) == Cardinality({j \in FirstOccurrences : j <= i})

\* C28: an object literal that writes a key more than once, quoted or not,
\* is parsed without error; the object has one entry for each key, in the
\* order in which the keys occur first, each with the value written last for
\* it.
C28_DuplicateKeys ==
    /\ ~Raised
    /\ Returned =>
          /\ result.k = "dict"
          /\ Len(result.v) = Cardinality(FirstOccurrences)
          /\ \A i \in FirstOccurrences :
                result.v[Rank(i)] =
                    << <<original.v[i].key>>, Int_(<<Digit(LastOccurrence(i))>>) >>

\* {a:1,"b":2,'a':3} has been parsed to {a: 3, b: 2}
C28_LastValueAtFirstPlace ==
    /\ Returned
    /\ Len(original.v) = 3
    /\ original.v[1] = [key |-> "a", form |-> "bare"]
    /\ original.v[2] = [key |-> "b", form |-> "double"]
    /\ original.v[3] = [key |-> "a", form |-> "single"]
    /\ result.v = << << <<"a">>, Int_(<<"3">>) >>, << <<"b">>, Int_(<<"2">>) >> >>

(***************************************************************************)
(* Parser.parse, loop iteration by loop iteration                          *)
(***************************************************************************)
\* original holds the outcomes of the conversions of slices of the text
\* (uuid.UUID, Date, the numbers).  The call stack is kept in ret: a frame holds where its caller goes on
\* when the call returns (back), where an except clause of the caller takes
\* over ("" when there is none), the cursor the except clause restores
\* (saved_pos), and, for a parse_value that became parse_array or
\* parse_object, the cursor at the last start of its while True loop.
\* lhs is the local start of the method that reads a token, rhs the list
\* of the cursors that were restored.
Frame(back, catch, saved_pos) ==
    [back |-> back, catch |-> catch, start |-> saved_pos, iter |-> -1]

Top == ret[Len(ret)]

Handlers == {i \in 1..Len(ret) : ret[i].catch # ""}

Handler == CHOOSE i \in Handlers : \A j \in Handlers : j <= i

OnlyParser == UNCHANGED <<text, length, result, error, original, opts>>

\* the same method goes on at location l with the cursor at p
Go(p, l) ==
    /\ pos' = p
    /\ pc' = l
    /\ UNCHANGED <<ret, lhs, rhs>>

\* self.skip_whitespace(), after which the caller goes on at back
CallSkipWhitespace(p, back) ==
    /\ pos' = p
    /\ pc' = "ws"
    /\ ret' = Append(ret, Frame(back, "", p))
    /\ UNCHANGED <<lhs, rhs>>

\* return
Return(p) ==
    /\ pos' = p
    /\ pc' = Top.back
    /\ ret' = Front(ret)
    /\ UNCHANGED <<lhs, rhs>>

\* raise: the innermost except clause restores the cursor; without one the
\* exception leaves parse()
RaiseAt(p) ==
    IF Handlers = {}
    THEN /\ pos' = p
         /\ pc' = "raised"
         /\ ret' = <<>>
         /\ UNCHANGED <<lhs, rhs>>
    ELSE /\ pos' = ret[Handler].start
         /\ pc' = ret[Handler].catch
         /\ ret' = SubSeq(ret, 1, Handler - 1)
         /\ rhs' = Append(rhs, ret[Handler].start)
         /\ UNCHANGED lhs

\* white space that is not stepped over: the cursor stays
AfterWhitespaceStays(t, p) == p

\* if ch in ' \t\n\r': self.advance()
AfterWhitespace(t, p) == advance(t, p, 1)

\* parse(): self.skip_whitespace()
StartParse ==
    /\ pc = "start"
    /\ CallSkipWhitespace(pos, "value")
    /\ OnlyParser

\* parse(): result = self.parse_value()
CallParseValue ==
    /\ pc = "value"
    /\ pc' = "pv"
    /\ ret' = Append(ret, Frame("trailing", "", pos))
    /\ UNCHANGED <<pos, lhs, rhs>>
    /\ OnlyParser

\* parse(): self.skip_whitespace() after the value
SkipAfterValue ==
    /\ pc = "trailing"
    /\ CallSkipWhitespace(pos, "check")
    /\ OnlyParser

\* parse(): if self.pos < self.length: raise; return result
EndParse ==
    /\ pc = "check"
    /\ pc' = IF pos < length THEN "raised" ELSE "done"
    /\ UNCHANGED <<pos, ret, lhs, rhs>>
    /\ OnlyParser

\* skip_whitespace: one iteration of while self.pos < self.length
WhitespaceLoop ==
    /\ pc = "ws"
    /\ IF pos < length /\ text[pos + 1] \in {" ", TAB, NL, CR}
       THEN Go(AfterWhitespace(text, pos), "ws")
       ELSE IF pos < length /\ text[pos + 1] = "/" /\ peek_char(text, pos, 1) = "/"
       THEN Go(advance(text, pos, 2), "ws_line")
       ELSE IF pos < length /\ text[pos + 1] = "/" /\ peek_char(text, pos, 1) = "*"
       THEN Go(advance(text, pos, 2), "ws_block")
       ELSE Return(pos)
    /\ OnlyParser

\* skip_whitespace: one iteration of the loop over a line comment
LineCommentLoop ==
    /\ pc = "ws_line"
    /\ IF pos < length /\ text[pos + 1] # NL
       THEN Go(advance(text, pos, 1), "ws_line")
       ELSE Go(pos, "ws")
    /\ OnlyParser

\* skip_whitespace: one iteration of the loop over a block comment
BlockCommentLoop ==
    /\ pc = "ws_block"
    /\ IF pos < length - 1
       THEN IF text[pos + 1] = "*" /\ text[pos + 2] = "/"
            THEN Go(advance(text, pos, 2), "ws")
            ELSE Go(advance(text, pos, 1), "ws_block")
       ELSE Go(pos, "ws")
    /\ OnlyParser

\* parse_value: self.skip_whitespace()
ValueSkipWhitespace ==
    /\ pc = "pv"
    /\ CallSkipWhitespace(pos, "pv_dispatch")
    /\ OnlyParser

\* a try block around self.parse_unquoted_literal()
TryLiteral(catch) ==
    /\ pc' = "lit"
    /\ ret' = Append(ret, Frame("ret", catch, pos))
    /\ lhs' = pos
    /\ UNCHANGED <<pos, rhs>>

\* the method that reads a token starts at location l
StartToken(p, l) ==
    /\ pos' = p
    /\ pc' = l
    /\ lhs' = pos
    /\ UNCHANGED <<ret, rhs>>

\* parse_value: the choice on the first character, lines 92-164
ValueDispatch ==
    /\ pc = "pv_dispatch"
    /\ IF pos >= length THEN RaiseAt(pos)
       ELSE IF text[pos + 1] = "n"
       THEN IF parse_null(text, pos).ok
            THEN Return(parse_null(text, pos).pos) ELSE RaiseAt(pos)
       ELSE IF text[pos + 1] \in {"t", "f"} THEN TryLiteral("bool")
       ELSE IF text[pos + 1] \in {DQ, SQ, BT}
       THEN StartToken(advance(text, pos, 1), "str")
       ELSE IF text[pos + 1] = "["
       THEN CallSkipWhitespace(advance(text, pos, 1), "arr_first")
       ELSE IF text[pos + 1] = "{"
       THEN CallSkipWhitespace(advance(text, pos, 1), "obj_first")
       ELSE IF text[pos + 1] = "-" \/ isdigit(text[pos + 1])
       THEN IF is_uuid(text, pos) \/ is_date(text, pos)
            THEN TryLiteral("num")
            ELSE StartToken(pos, "num")
       ELSE StartToken(pos, "lit")
    /\ OnlyParser

\* return self.parse_unquoted_literal() inside the try block
ReturnLiteral ==
    /\ pc = "ret"
    /\ Return(pos)
    /\ OnlyParser

\* except: self.pos = saved_pos; return self.parse_boolean()
ParseBoolean ==
    /\ pc = "bool"
    /\ IF parse_boolean(text, pos).ok
       THEN Return(parse_boolean(text, pos).pos) ELSE RaiseAt(pos)
    /\ OnlyParser

\* parse_unquoted_literal: one iteration of while self.pos < self.length
LiteralLoop ==
    /\ pc = "lit"
    /\ IF pos < length /\ text[pos + 1] \notin LiteralDelimiters
       THEN Go(advance(text, pos, 1), "lit")
       ELSE Go(pos, "lit_end")
    /\ OnlyParser

\* parse_unquoted_literal: uuid.UUID(literal), Date(literal), or raise
LiteralEnds ==
    /\ pc = "lit_end"
    /\ IF <<lhs, pos>> \in original.literals THEN Return(pos) ELSE RaiseAt(pos)
    /\ OnlyParser

\* parse_string: one iteration of while self.pos < self.length
StringLoopStep ==
    /\ pc = "str"
    /\ IF pos >= length THEN RaiseAt(pos)
       ELSE IF text[pos + 1] = text[lhs + 1] THEN Return(advance(text, pos, 1))
       ELSE IF text[pos + 1] # BSL THEN Go(advance(text, pos, 1), "str")
       ELSE IF pos + 1 >= length THEN RaiseAt(pos + 1)
       ELSE IF text[pos + 2] \in {DQ, SQ, BT, BSL, "/", "b", "f", "n", "r", "t"}
       THEN Go(advance(text, pos, 2), "str")
       ELSE IF text[pos + 2] # "u" THEN RaiseAt(pos + 1)
       ELSE IF pos + 6 > length THEN RaiseAt(pos + 2)
       ELSE Let(PyIntHex(Slice(text, pos + 2, pos + 6)), LAMBDA n :
            IF n.ok /\ ~(n.neg /\ StrToNat(n.digits, 16) > 0)
            THEN Go(advance(text, advance(text, pos + 2, 3), 1), "str")
            ELSE RaiseAt(pos + 2))
    /\ OnlyParser

\* parse_number: the sign and the first digit
NumberStart ==
    /\ pc = "num"
    /\ Let((IF current_char(text, pos) = "-" THEN advance(text, pos, 1) ELSE pos),
           LAMBDA p :
           IF current_char(text, p) = "0" THEN Go(advance(text, p, 1), "num_frac")
           ELSE IF p < length /\ isdigit(text[p + 1]) THEN Go(p, "num_int")
           ELSE RaiseAt(p))
    /\ OnlyParser

\* one iteration of a loop over digits, which goes on at location after
DigitLoop(loop, after) ==
    /\ pc = loop
    /\ IF pos < length /\ isdigit(text[pos + 1])
       THEN Go(advance(text, pos, 1), loop)
       ELSE Go(pos, after)
    /\ OnlyParser

IntegerLoop == DigitLoop("num_int", "num_frac")

\* parse_number: the decimal point
FractionStart ==
    /\ pc = "num_frac"
    /\ IF current_char(text, pos) # "." THEN Go(pos, "num_exp")
       ELSE IF pos + 1 < length /\ isdigit(text[pos + 2])
       THEN Go(advance(text, pos, 1), "num_fracdigits")
       ELSE RaiseAt(advance(text, pos, 1))
    /\ OnlyParser

FractionLoop == DigitLoop("num_fracdigits", "num_exp")

\* parse_number: e or E and the sign of the exponent
ExponentStart ==
    /\ pc = "num_exp"
    /\ IF current_char(text, pos) \notin {"e", "E"} THEN Go(pos, "num_suffix")
       ELSE Let((IF peek_char(text, pos, 1) \in {"+", "-"}
                 THEN advance(text, pos, 2) ELSE advance(text, pos, 1)),
                LAMBDA p :
                IF p < length /\ isdigit(text[p + 1])
                THEN Go(p, "num_expdigits") ELSE RaiseAt(p))
    /\ OnlyParser

ExponentLoop == DigitLoop("num_expdigits", "num_suffix")

\* parse_number: the suffix and the conversion of the digits read
NumberEnds ==
    /\ pc = "num_suffix"
    /\ IF original.numbers[lhs].ok
       THEN Return(original.numbers[lhs].pos)
       ELSE RaiseAt(IF current_char(text, pos) = "n"
                    THEN advance(text, pos, 1) ELSE pos)
    /\ OnlyParser

\* parse_array and parse_object: the empty container
ContainerFirst(first, close, loop) ==
    /\ pc = first
    /\ IF current_char(text, pos) = close
       THEN Return(advance(text, pos, 1))
       ELSE Go(pos, loop)
    /\ OnlyParser

ArrayFirst == ContainerFirst("arr_first", "]", "arr_item")

\* parse_array: while True: result.append(self.parse_value())
ArrayItem ==
    /\ pc = "arr_item"
    /\ pc' = "pv"
    /\ ret' = Append([ret EXCEPT ![Len(ret)].iter = pos],
                     Frame("arr_sep_ws", "", pos))
    /\ UNCHANGED <<pos, lhs, rhs>>
    /\ OnlyParser

\* self.skip_whitespace() after a value of a container
ContainerAfterValue(after, sep) ==
    /\ pc = after
    /\ CallSkipWhitespace(pos, sep)
    /\ OnlyParser

ArrayAfterValue == ContainerAfterValue("arr_sep_ws", "arr_sep")

\* the comma or the closing bracket after a value
ContainerSeparator(sep, close, trail) ==
    /\ pc = sep
    /\ IF current_char(text, pos) = ","
       THEN CallSkipWhitespace(advance(text, pos, 1), trail)
       ELSE IF current_char(text, pos) = close
       THEN Return(advance(text, pos, 1))
       ELSE RaiseAt(pos)
    /\ OnlyParser

ArraySeparator == ContainerSeparator("arr_sep", "]", "arr_trail")

\* the closing bracket after a trailing comma, or the next iteration
ContainerTrailing(trail, close, loop) ==
    /\ pc = trail
    /\ IF current_char(text, pos) = close
       THEN Return(advance(text, pos, 1))
       ELSE Go(pos, loop)
    /\ OnlyParser

ArrayTrailing == ContainerTrailing("arr_trail", "]", "arr_item")

ObjectFirst == ContainerFirst("obj_first", "}", "obj_loop")

\* parse_object: while True: self.skip_whitespace()
ObjectLoopStart ==
    /\ pc = "obj_loop"
    /\ pc' = "ws"
    /\ ret' = Append([ret EXCEPT ![Len(ret)].iter = pos],
                     Frame("obj_key", "", pos))
    /\ UNCHANGED <<pos, lhs, rhs>>
    /\ OnlyParser

\* parse_object: key = self.parse_string() or self.parse_unquoted_key(),
\* which starts with the probe self.parse_unquoted_literal() in a try block
ObjectKey ==
    /\ pc = "obj_key"
    /\ IF current_char(text, pos) \in {DQ, SQ, BT}
       THEN /\ pos' = advance(text, pos, 1)
            /\ pc' = "str"
            /\ ret' = Append(ret, Frame("obj_colon_ws", "", pos))
       ELSE /\ pos' = pos
            /\ pc' = "lit"
            /\ ret' = ret \o <<Frame("obj_colon_ws", "", pos),
                               Frame("key_rewind", "key_first", pos)>>
    /\ lhs' = pos
    /\ UNCHANGED rhs
    /\ OnlyParser

\* parse_unquoted_key: the probe returned; self.pos = saved_pos
KeyRewind ==
    /\ pc = "key_rewind"
    /\ pos' = lhs
    /\ pc' = "key_first"
    /\ rhs' = Append(rhs, lhs)
    /\ UNCHANGED <<ret, lhs>>
    /\ OnlyParser

\* parse_unquoted_key: the first character
KeyFirst ==
    /\ pc = "key_first"
    /\ IF pos < length /\ (isalpha(text[pos + 1]) \/ text[pos + 1] \in {"_", "$"})
       THEN Go(advance(text, pos, 1), "key_rest")
       ELSE RaiseAt(pos)
    /\ OnlyParser

\* parse_unquoted_key: one iteration of the loop over the other characters
KeyLoop ==
    /\ pc = "key_rest"
    /\ IF pos < length
          /\ (isalnum(text[pos + 1]) \/ text[pos + 1] \in {"_", "$", "-"})
       THEN Go(advance(text, pos, 1), "key_rest")
       ELSE Return(pos)
    /\ OnlyParser

ObjectAfterKey == ContainerAfterValue("obj_colon_ws", "obj_colon")

\* parse_object: the colon, then value = self.parse_value()
ObjectColon ==
    /\ pc = "obj_colon"
    /\ IF current_char(text, pos) # ":" THEN RaiseAt(pos)
       ELSE /\ pos' = advance(text, pos, 1)
            /\ pc' = "pv"
            /\ ret' = Append(ret, Frame("obj_sep_ws", "", pos))
            /\ UNCHANGED <<lhs, rhs>>
    /\ OnlyParser

ObjectAfterValue == ContainerAfterValue("obj_sep_ws", "obj_sep")

ObjectSeparator == ContainerSeparator("obj_sep", "}", "obj_trail")

ObjectTrailing == ContainerTrailing("obj_trail", "}", "obj_loop")

ProgressNext ==
    \/ StartParse \/ CallParseValue \/ SkipAfterValue \/ EndParse
    \/ WhitespaceLoop \/ LineCommentLoop \/ BlockCommentLoop
    \/ ValueSkipWhitespace \/ ValueDispatch \/ ReturnLiteral \/ ParseBoolean
    \/ LiteralLoop \/ LiteralEnds \/ StringLoopStep
    \/ NumberStart \/ IntegerLoop \/ FractionStart \/ FractionLoop
    \/ ExponentStart \/ ExponentLoop \/ NumberEnds
    \/ ArrayFirst \/ ArrayItem \/ ArrayAfterValue \/ ArraySeparator
    \/ ArrayTrailing
    \/ ObjectFirst \/ ObjectLoopStart \/ ObjectKey \/ KeyRewind \/ KeyFirst
    \/ KeyLoop \/ ObjectAfterKey \/ ObjectColon \/ ObjectAfterValue
    \/ ObjectSeparator \/ ObjectTrailing

MaxProgressTokens == 2

ProgressTokens ==
    { <<"[">>,
      <<"]">>,
      <<"{">>,
      <<"}">>,
      <<",">>,
      <<" ">>,
      <<"a", ":">>,
      <<"1">>,
      <<DQ, "x", DQ>>,
      <<"/", "*">> }

ProgressTexts ==
    {Concat(ts) : ts \in TextsUpTo(ProgressTokens, MaxProgressTokens)}
    \cup
    { <<"{", "a", ":", "[", "1", ",", "{", DQ, "b", DQ, ":", "t", "r", "u", "}", "]", ",", "}">>,
      <<"[", "1", ",", "[", "2", ",", "[", "3", ",", "]", ",", "]", ",", "]">>,
      <<"{", "a", "-", "b", ":", "1", ",", "$", "c", ":", "{", "d", ":", "2", "}", "}">>,
      <<"[", "1", "e", "5", ",", "1", ".", ",", "1", "e", ",", "-", "]">>,
      <<"{", DQ, "a", DQ, " ", ":", " ", "/", "*", "c", "*", "/", " ", "1", " ", ",", " ", "/", "/", " ", "d", NL, "}">>,
      <<DQ, BSL, "u", "0", "0">>,
      <<DQ, BSL, "u", "0", "0", "z", "z", DQ>>,
      <<DQ, BSL>>,
      <<"[", "2", "0", "2", "5", "-", "0", "1", "-", "1", "0", ",", "5", "5", "0", "e", "8", "4", "0", "0", "-", "e", "2", "9", "b", "-", "4", "1", "d", "4", "-", "a", "7", "1", "6", "-", "4", "4", "6", "6", "5", "5", "4", "4", "0", "0", "0", "0", "]">>,
      <<"{", "2", "0", "2", "5", "-", "0", "1", "-", "1", "0", ":", "1", "}">>,
      <<"[", "f", "a", "l", "s", "e", ",", "n", "u", "l", "]">>,
      <<"[", "1", "n", ",", "1", ".", "5", "n", ",", "1", "m", "]">>,
      <<"{", "a", " ", "1", "}">>,
      <<"{", "a", ":", "1", " ", "b", "}">>,
      <<"[", "1", " ", "2", "]">>,
      <<"{", "a", ":", "[", "t", "r", "u", "e", ",", "{", "b", ":", "1", "2", "3", "e", "-", "5", "}", "]", ",", " ", "/", "*", "c", "*", "/", " ", "}">>,
      <<"-", "0", ".", "5", "e", "+", "1">>,
      <<"1", Sup2>>,
      <<DQ, "x", BSL, "n", DQ>>,
      <<SQ, BSL, "u", "0", "0", "4", "1", SQ>>,
      <<BT, BSL, "q">>,
      <<"t", "r", "u", "e">>,
      <<"t", "r", "u">>,
      <<"n", "u", "l", "l">>,
      <<"/", "/", "c", NL, "1">>,
      <<"/", "*", "c", "*", "/", "1">>,
      <<"1", "2", "3", "4", "5", "6", "7", "8", "-", "1">>,
      <<"2", "0", "2", "5", "-", "0", "1", "-", "1", "0">>,
      <<"[", "t", "r", "u", "]">>,
      <<"{", DQ, "k", DQ, ":", "t", "r", "u", "e", ",", "}">>,
      <<"[", " ", "/", "/", "c", NL, " ", "1", " ", "/", "*", "c", "*", "/", " ", ",", " ", "-", "0", ".", "5", "e", "+", "1", " ", "]">>,
      <<"{", BT, "k", BT, ":", SQ, "v", SQ, "}">>,
      <<"[", "n", "u", "l", "l", ",", "]">>,
      <<"1", ".", "5", "e", "1", " ", "/", "/", "c">>,
      <<TAB, "1", NL>>,
      <<"[", "[", "]", ",", "{", "}", "]">>,
      <<"{", "a", ":", "{", "}", "}">>,
      <<"1", " ", "/", "*">>,
      <<"[", "1", ",", "/", "*", "]">>,
      <<"{", "a", ":", "/", "/", NL, "1", "}">>,
      <<"{", "2", "0", "2", "5", "-", "0", "1", "-", "1", "0", " ", ":", "1", "}">>,
      <<"{", "a", "b", "c", "d", "e", "f", "1", "2", "-", "1", "2", "3", "4", "-",
        "1", "2", "3", "4", "-", "1", "2", "3", "4", "-", "1", "2", "3", "4", "5",
        "6", "7", "8", "9", "0", "1", "2", " ", ":", "1", "}">> }

\* the slices of the text that uuid.UUID or Date accept
LiteralSlices(t) ==
    {se \in (0..Len(t)) \X (0..Len(t)) :
        se[1] <= se[2] /\ Validates(Slice(t, se[1], se[2]))}

\* whether parse_number returns from each place of the text, and where
NumberOutcomes(t) ==
    [p \in 0..Len(t) |->
        [ok |-> parse_number(t, p).ok, pos |-> parse_number(t, p).pos]]

\* Parser(text) with an empty call stack; original holds what the
\* conversions of the text give, which no step changes
InitProgress ==
    /\ \E t \in ProgressTexts :
          /\ ParserInit(t)
          /\ original = [k |-> "conversions", literals |-> LiteralSlices(t),
                         numbers |-> NumberOutcomes(t)]
    /\ opts = DefaultOptions
    /\ ret = <<>>
    /\ lhs = 0
    /\ rhs = <<>>

SpecProgress == InitProgress /\ [][ProgressNext]_vars

\* the interpreter runs the call until it returns or raises
SpecProgressFair == SpecProgress /\ WF_vars(ProgressNext)

CursorInRange == 0 <= pos /\ pos <= length

\* the locations of the loops that read a token, white space or a comment
LoopLocations ==
    {"ws", "ws_line", "ws_block", "lit", "str", "num_int", "num_fracdigits",
     "num_expdigits", "key_rest"}

\* an iteration of such a loop moves the cursor forward or leaves the loop
AdvancesOrLeaves ==
    pc \in LoopLocations => (pos' > pos \/ pc' # pc)

IterationAdvances == [][AdvancesOrLeaves]_vars

\* an iteration of while True in parse_array and parse_object starts
\* further on than the one before
LoopHeadAdvances ==
    pc \in {"arr_item", "obj_loop"} => pos > Top.iter

\* no cursor is restored twice
RewindsOnce ==
    \A i, j \in 1..Len(rhs) : i # j => rhs[i] # rhs[j]

\* the steps end where the methods of parse end
AgreesWithParse ==
    /\ pc = "done" =>
          AloneValue(text).ok /\ AloneEnd(text) = pos /\ pos = length
    /\ pc = "raised" =>
          ~(AloneValue(text).ok /\ AloneEnd(text) >= Len(text))
    /\ (pc = "trailing" /\ ret = <<>>) =>
          AloneValue(text).ok /\ AloneValue(text).pos = pos

\* C30: during a parse the cursor stays within 0..length, every iteration
\* of a loop moves the cursor forward or leaves the loop, a cursor is
\* restored at most once, and the parse eventually returns or raises.
C30_ParserProgress ==
    /\ [](CursorInRange /\ LoopHeadAdvances /\ RewindsOnce)
    /\ IterationAdvances
    /\ <>(Returned \/ Raised)

\* a parse has returned after a literal fallback and a key probe, in a
\* nested container behind a comment
C30_ReturnedAfterRewinds ==
    /\ Returned
    /\ Len(rhs) >= 2
    /\ pos = length
    /\ \E i \in 1..length : text[i] = "{"
    /\ \E i \in 1..length : text[i] = "["

====
